---- MODULE Spec2Model ----
(***************************************************************************)
(* LegacyLens: the scan pipeline (plan -> hunt -> explain -> write), the   *)
(* file-backed scan store with its promise lock, and the per-entry log     *)
(* write-through, as a state machine over the Node.js event loop.          *)
(*                                                                         *)
(* Spec        the store, its lock, the microtask queue, one scan's        *)
(*             pipeline and its fire-and-forget log write-throughs.        *)
(* SpecExplain explainNode on its own: batches of findings, each item      *)
(*             enriched or given the fallback shape.                       *)
(* SpecStore   the store under calls from request handlers, from every    *)
(*             form scans.json can be found in.                            *)
(* SpecStream  Spec with two connections to the scan's progress stream.    *)
(* SpecAbort   one connection to the progress stream of a running or an    *)
(*             unknown scan, which the client may drop at any time.        *)
(* SpecSubmit  one POST /api/scan request and the run it launches.         *)
(* SpecSearch  concurrent searchCode callers and the shared rate limiter.  *)
(* SpecScans   the store under updates for two scans.                      *)
(* SpecLock    the store's lock under updates of which some throw;         *)
(*             FairSpecLock adds that every step that can be taken is.     *)
(* SpecPoll    one connection whose interval callbacks overlap.            *)
(* SpecHybrid  runHybridDetectors on the findings of its two scans.        *)
(* SpecReindex searchCode with the answers to its requests; FairSpecReindex*)
(*             adds that every step that can be taken is taken.            *)
(* SpecBatch   explainNode's loop item by item: a batch's enrichments in   *)
(*             flight, and the pause between batches.                      *)
(* SpecGraph   the compiled graph and runAgent's loop over its stream,     *)
(*             without the store.                                          *)
(*                                                                         *)
(* scans.json is modelled by what a read finds (file) and, for a JSON      *)
(* object, its records (disk).  A write is the four file accesses of       *)
(* writeRealScansToDisk, one step each, on the one shared temporary path.  *)
(*                                                                         *)
(* Log entries are named by the addLog site that makes them; timestamps    *)
(* and uuids are left out.  Of the addLog sites of a phase the model keeps *)
(* the first one (before the phase's external call) and the last one       *)
(* (before its return), plus the one of its catch block: the sites in      *)
(* between are further calls of the same helper.                           *)
(*                                                                         *)
(* The metadata call of planNode and the detector call of huntNode are the *)
(* environment: each either returns or throws into the node's catch block. *)
(***************************************************************************)
EXTENDS Integers, Sequences, FiniteSets, TLC

\* ------------------------------------------------------------ bounds
\* write-through tasks (saveLogImmediately) of a run whose file accesses may
\* interleave with other events; the others finish before the next event
MaxSlow == 2
\* findings one scan of runHybridDetectors may return
MaxHybrid == 2
\* runs of a connection's interval callback that may be awaiting getScan at once
MaxPolls == 2
\* the last clock reading (ms) of SpecSearch
MaxClock == 2000
\* raw findings handed to explainNode in SpecExplain
MaxFindings == 6

\* ------------------------------------------------------------ findings
\* explainNode's batch size
BatchSize == 5

SEVERITY_MAP ==
  [r \in {"hardcoded-secrets", "hardcoded-credentials", "sql-injection",
          "eval-usage", "exposed-env", "no-validation",
          "no-http-timeout", "empty-catch", "unhandled-promise",
          "god-file", "long-function", "magic-numbers", "todo-clusters"} |->
     CASE r \in {"hardcoded-secrets", "hardcoded-credentials", "sql-injection"} -> "critical"
       [] r \in {"eval-usage", "exposed-env", "no-validation"} -> "high"
       [] r \in {"no-http-timeout", "empty-catch", "unhandled-promise"} -> "medium"
       [] OTHER -> "low"]

calculateSeverity(ruleId) ==
  IF ruleId \in DOMAIN SEVERITY_MAP THEN SEVERITY_MAP[ruleId] ELSE "medium"

\* snippets are modelled by their length
calculateETA(ruleId, snippetLen) ==
  IF ruleId \in {"hardcoded-secrets", "exposed-env", "magic-numbers",
                 "empty-catch", "no-http-timeout"} THEN "easy"
  ELSE IF ruleId \in {"god-file", "long-function", "sql-injection", "no-validation"}
       THEN "large"
  ELSE IF snippetLen > 300 THEN "large"
  ELSE "medium"

calculateMinutesSaved(severity, eta) ==
  (CASE severity = "critical" -> 15
     [] severity = "high" -> 12
     [] severity = "medium" -> 7
     [] OTHER -> 3) + 2

\* what the Enricher returns for a finding (generateTimeline, generateExplanation,
\* generateFix): opaque text, named after the rule
AiText(kind, ruleId) == <<kind, ruleId>>

FallbackTimeline ==
  [t3m |-> "Issue detected", t6m |-> "Problem persists",
   t1y |-> "Refactor needed", t2y |-> "Technical debt grows"]

\* explainNode, the try branch of one item
EnrichOk(f) ==
  LET severity == calculateSeverity(f.ruleId)
      eta == calculateETA(f.ruleId, f.snippet)
  IN [ruleId |-> f.ruleId, category |-> f.category, severity |-> severity,
      eta |-> eta, file |-> f.file, line |-> f.line, snippet |-> f.snippet,
      title |-> AiText("title", f.ruleId),
      explanation |-> AiText("explanation", f.ruleId),
      fix |-> AiText("fix", f.ruleId),
      timeline |-> [t3m |-> "ai", t6m |-> "ai", t1y |-> "ai", t2y |-> "ai"],
      minutesSaved |-> calculateMinutesSaved(severity, eta)]

EnrichFallbackWrongMinutes(f) ==
  [ruleId |-> f.ruleId, category |-> f.category,
   severity |-> calculateSeverity(f.ruleId),
   eta |-> "medium", file |-> f.file, line |-> f.line, snippet |-> f.snippet,
   title |-> <<f.ruleId, f.file>>,
   explanation |-> <<"Unable to generate explanation", "">>,
   fix |-> <<"// Fix could not be generated", "">>,
   timeline |-> FallbackTimeline,
   minutesSaved |-> calculateMinutesSaved(calculateSeverity(f.ruleId), "medium")]

EnrichFallbackMediumSeverity(f) ==
  [ruleId |-> f.ruleId, category |-> f.category,
   severity |-> "medium",
   eta |-> "medium", file |-> f.file, line |-> f.line, snippet |-> f.snippet,
   title |-> <<f.ruleId, f.file>>,
   explanation |-> <<"Unable to generate explanation", "">>,
   fix |-> <<"// Fix could not be generated", "">>,
   timeline |-> FallbackTimeline,
   minutesSaved |-> 10]

\* explainNode, the catch branch of one item
EnrichFallback(f) ==
  [ruleId |-> f.ruleId, category |-> f.category,
   severity |-> calculateSeverity(f.ruleId),
   eta |-> "medium", file |-> f.file, line |-> f.line, snippet |-> f.snippet,
   title |-> <<f.ruleId, f.file>>,
   explanation |-> <<"Unable to generate explanation", "">>,
   fix |-> <<"// Fix could not be generated", "">>,
   timeline |-> FallbackTimeline,
   minutesSaved |-> 10]

\* one item of a batch: batch.map(async (finding) => { try ... catch ... })
EnrichItem(f, throws) == IF throws THEN EnrichFallback(f) ELSE EnrichOk(f)

\* the raw findings the Analyzer may return
RawA == [ruleId |-> "sql-injection", category |-> "security",
         file |-> "db.ts", line |-> 4, snippet |-> 40]
RawB == [ruleId |-> "todo-clusters", category |-> "maintainability",
         file |-> "app.ts", line |-> 9, snippet |-> 200]
RawC == [ruleId |-> "unknown-issue", category |-> "reliability",
         file |-> "db.ts", line |-> 4, snippet |-> 400]
\* a second finding of RawC's rule, in another file, with a shorter snippet
RawD == [ruleId |-> "unknown-issue", category |-> "reliability",
         file |-> "api.ts", line |-> 7, snippet |-> 200]
RawFindings == {RawA, RawB, RawC}
\* what another scan reports at RawA's place for RawA's rule
RawA2 == [RawA EXCEPT !.snippet = 400]
\* a security finding of a rule that is not one of the critical three
RawE == [ruleId |-> "hardcoded-credentials", category |-> "security",
         file |-> "auth.ts", line |-> 2, snippet |-> 40]

CountSeverity(fs, sev) == Cardinality({i \in 1..Len(fs) : fs[i].severity = sev})

RECURSIVE SumMinutes(_)
SumMinutes(fs) == IF fs = <<>> THEN 0 ELSE fs[1].minutesSaved + SumMinutes(Tail(fs))

\* ------------------------------------------------------------ records
ScanIds == {"s1", "s2"}

\* addLog sites, by phase; each names the entry it makes and the write-through
\* task (saveLogImmediately) it starts
Sites == {"plan:init", "plan:files", "plan:error",
          "hunt:start", "hunt:fallback", "hunt:maint", "hunt:error",
          "explain:start", "explain:impact",
          "write:start", "write:done"}
\* the request handlers that call the store, named in the order of their requests
Clients == {"c1", "c2", "c3", "c4"}
\* the connections to the progress stream
Observers == {"o1", "o2"}
\* the store calls made for the second scan
Others == {"d1"}
Tasks == Sites \cup {"bg"} \cup Clients \cup Others

ZeroStats == [totalFiles |-> 0, criticalCount |-> 0, highCount |-> 0,
              mediumCount |-> 0, lowCount |-> 0, totalMinutes |-> 0]

\* an id with no record in scans.json
Absent == [exists |-> FALSE, status |-> "none", findings |-> <<>>,
           stats |-> ZeroStats, logs |-> <<>>]

\* POST: the record saved before the pipeline is started
initialScan == [exists |-> TRUE, status |-> "scanning", findings |-> <<>>,
                stats |-> ZeroStats, logs |-> <<"queued">>]

\* a Partial<ScanResult>: the fields in has are supplied
NoPatch == [has |-> {}, status |-> "none", findings |-> <<>>,
            stats |-> ZeroStats, logs |-> <<>>]

LogsPatch(logs) == [NoPatch EXCEPT !.has = {"logs"}, !.logs = logs]

\* updateScan: realScans[id] = { ...realScans[id], ...updates }
MergeRecord(rec, patch) ==
  [exists |-> TRUE,
   status |-> IF "status" \in patch.has THEN patch.status ELSE rec.status,
   findings |-> IF "findings" \in patch.has THEN patch.findings ELSE rec.findings,
   stats |-> IF "stats" \in patch.has THEN patch.stats ELSE rec.stats,
   logs |-> IF "logs" \in patch.has THEN patch.logs ELSE rec.logs]

\* ------------------------------------------------------------ pipeline state
NoMeta == [set |-> FALSE, totalFiles |-> 0]
\* what getRepoMetadata returns for the scanned repository
RepoMeta == [set |-> TRUE, totalFiles |-> 3]

\* runAgent: initialState
initialState == [repoMetadata |-> NoMeta, findings |-> <<>>,
                 enrichedFindings |-> <<>>, logs |-> <<>>, error |-> ""]

\* a node's return value, a Partial<AgentState>
NoUpdate == [has |-> {}, repoMetadata |-> NoMeta, findings |-> <<>>,
             enrichedFindings |-> <<>>, logs |-> <<>>, error |-> ""]

MergeNodeOutputReplaceLogs(fs, out) ==
  [repoMetadata |-> IF "repoMetadata" \in out.has THEN out.repoMetadata ELSE fs.repoMetadata,
   findings |-> IF "findings" \in out.has THEN out.findings ELSE fs.findings,
   enrichedFindings |-> IF "enrichedFindings" \in out.has THEN out.enrichedFindings
                        ELSE fs.enrichedFindings,
   error |-> IF "error" \in out.has THEN out.error ELSE fs.error,
   logs |-> IF "logs" \in out.has THEN out.logs ELSE fs.logs]

\* runAgent: finalState = { ...finalState, ...nodeOutput, logs: mergedLogs }
MergeNodeOutput(fs, out) ==
  [repoMetadata |-> IF "repoMetadata" \in out.has THEN out.repoMetadata ELSE fs.repoMetadata,
   findings |-> IF "findings" \in out.has THEN out.findings ELSE fs.findings,
   enrichedFindings |-> IF "enrichedFindings" \in out.has THEN out.enrichedFindings
                        ELSE fs.enrichedFindings,
   error |-> IF "error" \in out.has THEN out.error ELSE fs.error,
   logs |-> fs.logs \o (IF "logs" \in out.has THEN out.logs ELSE <<>>)]

ChannelMergeReplaceLogs(x, y) ==
  [repoMetadata |-> IF "repoMetadata" \in y.has THEN y.repoMetadata ELSE x.repoMetadata,
   findings |-> IF "findings" \in y.has THEN y.findings ELSE x.findings,
   enrichedFindings |-> IF "enrichedFindings" \in y.has THEN y.enrichedFindings
                        ELSE x.enrichedFindings,
   logs |-> IF "logs" \in y.has THEN y.logs ELSE x.logs,
   error |-> IF "error" \in y.has THEN y.error ELSE x.error]

\* agentStateChannels: the reducers the graph applies to a node's update y on the
\* state x: "y ?? x" for repoMetadata, findings, enrichedFindings and error,
\* "[...x, ...(y || [])]" for logs.  No node returns a key with a null or
\* undefined value, so y is nullish exactly when the key is absent.
ChannelMerge(x, y) ==
  LET Nullish(k) == k \notin y.has
  IN [repoMetadata |-> IF Nullish("repoMetadata") THEN x.repoMetadata ELSE y.repoMetadata,
      findings |-> IF Nullish("findings") THEN x.findings ELSE y.findings,
      enrichedFindings |-> IF Nullish("enrichedFindings") THEN x.enrichedFindings
                           ELSE y.enrichedFindings,
      logs |-> x.logs \o (IF Nullish("logs") THEN <<>> ELSE y.logs),
      error |-> IF Nullish("error") THEN x.error ELSE y.error]

StatsOfNoLow(result) ==
  [totalFiles |-> IF result.repoMetadata.set THEN result.repoMetadata.totalFiles ELSE 0,
   criticalCount |-> CountSeverity(result.enrichedFindings, "critical"),
   highCount |-> CountSeverity(result.enrichedFindings, "high"),
   mediumCount |-> CountSeverity(result.enrichedFindings, "medium"),
   lowCount |-> 0,
   totalMinutes |-> SumMinutes(result.enrichedFindings)]

\* runAgentInBackground: the statistics of a run without error
StatsOf(result) ==
  [totalFiles |-> IF result.repoMetadata.set THEN result.repoMetadata.totalFiles ELSE 0,
   criticalCount |-> CountSeverity(result.enrichedFindings, "critical"),
   highCount |-> CountSeverity(result.enrichedFindings, "high"),
   mediumCount |-> CountSeverity(result.enrichedFindings, "medium"),
   lowCount |-> CountSeverity(result.enrichedFindings, "low"),
   totalMinutes |-> SumMinutes(result.enrichedFindings)]

CompletedPatchReversed(result) ==
  [has |-> {"status", "findings", "stats", "logs"}, status |-> "completed",
   findings |-> [i \in 1..Len(result.enrichedFindings) |->
                   result.enrichedFindings[Len(result.enrichedFindings) + 1 - i]],
   stats |-> StatsOf(result), logs |-> result.logs]

CompletedPatch(result) ==
  [has |-> {"status", "findings", "stats", "logs"}, status |-> "completed",
   findings |-> result.enrichedFindings, stats |-> StatsOf(result),
   logs |-> result.logs]

FailedPatch(result) ==
  [NoPatch EXCEPT !.has = {"status", "logs"}, !.status = "failed",
                  !.logs = result.logs]

FinalPatchIgnoringError(result) == CompletedPatch(result)

\* runAgentInBackground: the update made when runAgent has returned
FinalPatch(result) ==
  IF result.error # "" THEN FailedPatch(result) ELSE CompletedPatch(result)

\* runAgentInBackground: the update of the catch block
FatalPatch ==
  [NoPatch EXCEPT !.has = {"status", "logs"}, !.status = "failed",
                  !.logs = <<"fatal">>]

\* ------------------------------------------------------------ progress stream
\* the complete event: status, findingsCount and stats of the record polled
NoFinal == [sent |-> FALSE, status |-> "none", findingsCount |-> 0,
            stats |-> ZeroStats]
\* a connection: whether the controller is open, lastLogCount, the log events
\* sent, the complete event, the error event, whether a run of the interval
\* callback is awaiting getScan, and whether the client has disconnected;
\* whether pollInterval is set (timer), the records that runs of the callback
\* have read and not handled yet (inflight); and history: the number of
\* complete events sent (completes) and of events sent after the first (tail)
NoStream == [open |-> FALSE, lastLogCount |-> 0, logs |-> <<>>, final |-> NoFinal,
             error |-> "", polling |-> FALSE, aborted |-> FALSE,
             timer |-> FALSE, inflight |-> <<>>, completes |-> 0, tail |-> 0]
\* GET /api/scan/[id]/stream: the connection when start() has run
NewStream == [NoStream EXCEPT !.open = TRUE, !.timer = TRUE]

SentForRecordKeepsOpen(c, scan) ==
  LET n == Len(scan.logs)
      last == c.lastLogCount
      over == scan.status \in {"completed", "failed"}
  IN [c EXCEPT !.lastLogCount = IF n > last THEN n ELSE last,
               !.logs = IF n > last THEN @ \o SubSeq(scan.logs, last + 1, n) ELSE @,
               !.final = IF over THEN [sent |-> TRUE, status |-> scan.status,
                                       findingsCount |-> Len(scan.findings),
                                       stats |-> scan.stats]
                         ELSE @,
               !.timer = IF over THEN FALSE ELSE @,
               !.completes = IF over THEN @ + 1 ELSE @,
               !.tail = IF c.completes > 0 THEN 1 ELSE @,
               !.polling = FALSE]

\* the events of a record that exists: the entries past lastLogCount, the
\* progress event, and for a completed or failed record the complete event,
\* which closes the stream
SentForRecord(c, scan) ==
  LET n == Len(scan.logs)
      last == c.lastLogCount
      over == scan.status \in {"completed", "failed"}
  IN [c EXCEPT !.open = ~over,
               !.lastLogCount = IF n > last THEN n ELSE last,
               !.logs = IF n > last THEN @ \o SubSeq(scan.logs, last + 1, n) ELSE @,
               !.final = IF over THEN [sent |-> TRUE, status |-> scan.status,
                                       findingsCount |-> Len(scan.findings),
                                       stats |-> scan.stats]
                         ELSE @,
               !.timer = IF over THEN FALSE ELSE @,
               !.completes = IF over THEN @ + 1 ELSE @,
               !.tail = IF c.completes > 0 THEN 1 ELSE @,
               !.polling = FALSE]

SentIgnoringAbsent(c, scan) ==
  IF ~c.open THEN [c EXCEPT !.polling = FALSE] ELSE SentForRecord(c, scan)

SentAfterClose(c, scan) ==
  IF ~scan.exists
  THEN [c EXCEPT !.open = FALSE, !.timer = FALSE, !.error = "Scan not found",
                 !.polling = FALSE]
  ELSE SentForRecord(c, scan)

\* The interval callback after "await getScan(id)".  On a controller that was
\* closed meanwhile enqueue throws, in the try block and again in the catch
\* block, and nothing is sent.  An absent record closes the stream with an error
\* event.
Sent(c, scan) ==
  IF ~c.open THEN [c EXCEPT !.polling = FALSE]
  ELSE IF ~scan.exists
  THEN [c EXCEPT !.open = FALSE, !.timer = FALSE, !.error = "Scan not found",
                 !.polling = FALSE]
  ELSE SentForRecord(c, scan)

\* ------------------------------------------------------------ POST /api/scan
\* A request's repoUrl is a sequence of characters; the empty sequence stands
\* for a body without one.
Http == <<"h", "t", "t", "p">>
Https == <<"h", "t", "t", "p", "s", ":", "/", "/">>
Www == <<"w", "w", "w", ".">>
GitHubCom == <<"g", "i", "t", "h", "u", "b", ".", "c", "o", "m">>
GitLabCom == <<"g", "i", "t", "l", "a", "b", ".", "c", "o", "m">>

\* \w
WordChars == {"a", "b", "c", "d", "e", "f", "g", "h", "i", "j", "k", "l", "m",
              "n", "o", "p", "q", "r", "s", "t", "u", "v", "w", "x", "y", "z",
              "0", "1", "2", "3", "4", "5", "6", "7", "8", "9", "_"}

\* String.prototype.trim, for the blanks the requests use
RECURSIVE TrimStart(_)
TrimStart(u) == IF u # <<>> /\ Head(u) = " " THEN TrimStart(Tail(u)) ELSE u
RECURSIVE TrimEnd(_)
TrimEnd(u) ==
  IF u # <<>> /\ u[Len(u)] = " " THEN TrimEnd(SubSeq(u, 1, Len(u) - 1)) ELSE u
Trim(u) == TrimEnd(TrimStart(u))

StartsWith(u, p) == Len(u) >= Len(p) /\ SubSeq(u, 1, Len(p)) = p
Drop(u, n) == SubSeq(u, n + 1, Len(u))
\* the length of the longest prefix of u made of characters of cls
RECURSIVE Run(_, _)
Run(u, cls) == IF u # <<>> /\ Head(u) \in cls THEN 1 + Run(Tail(u), cls) ELSE 0

urlPatternAny(u) == TRUE

\* urlPattern.test: /^https?:\/\/(www\.)?github\.com\/[\w-]+\/[\w.-]+(\/.*)?$/
urlPattern(u) ==
  /\ StartsWith(u, Http)
  /\ LET a == Drop(u, Len(Http))
         b == IF StartsWith(a, <<"s">>) THEN Tail(a) ELSE a
     IN /\ StartsWith(b, <<":", "/", "/">>)
        /\ LET c == Drop(b, 3)
               d == IF StartsWith(c, Www) THEN Drop(c, Len(Www)) ELSE c
           IN /\ StartsWith(d, GitHubCom \o <<"/">>)
              /\ LET e == Drop(d, Len(GitHubCom) + 1)
                     n == Run(e, WordChars \cup {"-"})
                 IN /\ n >= 1
                    /\ StartsWith(Drop(e, n), <<"/">>)
                    /\ LET f == Drop(e, n + 1)
                           k == Run(f, WordChars \cup {".", "-"})
                       IN /\ k >= 1
                          /\ (k = Len(f) \/ f[k + 1] = "/")

\* the repoUrl values of the requests
Owner == <<"/", "o", "-", "1">>
GoodUrls == {Https \o GitHubCom \o Owner \o <<"/", "r">>,
             Http \o <<":", "/", "/">> \o Www \o GitHubCom \o Owner
               \o <<"/", "r", ".", "j", "s", "/", "t", "?">>,
             <<" ">> \o Https \o GitHubCom \o Owner \o <<"/", ".", "g">> \o <<" ">>}
BadUrls == {<<>>,
            Https \o GitLabCom \o Owner \o <<"/", "r">>,
            Https \o GitHubCom \o Owner,
            Https \o GitHubCom \o Owner \o <<"/">>,
            GitHubCom \o Owner \o <<"/", "r">>,
            Https \o GitHubCom \o <<"/", "/", "r">>,
            Https \o GitHubCom \o Owner \o <<"/", "r", "?", "x">>,
            Https \o GitHubCom \o <<"/", "o", ".", "1", "/", "r">>,
            <<"x">> \o Https \o GitHubCom \o Owner \o <<"/", "r">>}
RepoUrls == GoodUrls \cup BadUrls

\* the handler: where it stands, the repoUrl of its request, the status of its
\* response (0 while there is none)
NoPost == [pc |-> "idle", url |-> <<>>, response |-> 0]

\* ------------------------------------------------------------ state
VARIABLES
  disk,       \* scans.json: scan id -> record (empty unless file = "ok")
  file,       \* scans.json: what the file holds, see FileStates
  tmp,        \* scans.json.tmp
  writeLock,  \* the promise in writeLock, named by the task whose withLock made it
  pending,    \* the tasks whose lock promise is not resolved yet
  lockWait,   \* the callers suspended in "await writeLock" on a pending promise
  mq,         \* the microtask queue: tasks whose continuation is ready to run
  task,       \* the store calls in progress, by task
  pc,         \* where runAgentInBackground stands
  st,         \* runAgent: finalState
  upd,        \* the running node: updates.logs
  outs,       \* history: the log list each executed node returned
  hunt,       \* huntNode: the detection mode, and history: what the strategies did
  emitted,    \* history: the entries addLog was called for, in order
  exIn,       \* explainNode: state.findings
  exThrows,   \* explainNode: the items whose enrichment throws
  exOut,      \* explainNode: enrichedFindings
  exI,        \* explainNode: the loop index i (0-based)
  exRet,      \* explainNode: the update returned
  exPc,       \* explainNode: position
  exRun,      \* explainNode: the items whose enrichment is in flight, and history
  obs,        \* the progress streams: per connection, lastLogCount and the events sent
  post,       \* POST /api/scan: the request being handled and its response
  clock,      \* Date.now(), in ms
  lastSearchTime, \* greptile.ts: the module-level lastSearchTime
  srch,       \* the searchCode calls: position, and the time their sleep ends
  sentAt,     \* history: the times at which a search request was sent
  ch,         \* the graph: the state held by its channels
  gph,        \* the graph: the node to run, the updates streamed, runAgent's loop
  hyb         \* a runHybridDetectors call: position, both scans' findings, result

storeVars == <<disk, file, tmp, writeLock, pending, lockWait, mq, task>>
agentVars == <<pc, st, upd, outs, hunt, emitted>>
explainVars == <<exIn, exThrows, exOut, exI, exRet, exPc, exRun>>
streamVars == <<obs>>
postVars == <<post>>
searchVars == <<clock, lastSearchTime, srch, sentAt>>
graphVars == <<ch, gph>>
vars == <<disk, file, tmp, writeLock, pending, lockWait, mq, task, pc, st, upd, outs,
          hunt, emitted,
          exIn, exThrows, exOut, exI, exRet, exPc, exRun, obs, post,
          clock, lastSearchTime, srch, sentAt, ch, gph, hyb>>

\* explainNode before its loop: no item in flight (fly), none finished, and no
\* batch or pause so far (events)
NoRunning == [fly |-> {}, finished |-> {}, events |-> <<>>]

\* ------------------------------------------------------------ the graph
\* createAgentGraph: __start__ -> plan -> hunt -> explain -> write -> __end__
PhaseAfter(p) ==
  CASE p = "plan" -> "hunt"
    [] p = "hunt" -> "explain"
    [] p = "explain" -> "write"
    [] OTHER -> "end"

\* one invocation of a node, for the record: the state it was given had an
\* error (errorBefore), the addLog calls it made (logged), whether it reached
\* its external call (external), the update it returned (out) and the channel
\* state after that update (after)
NoRun == [phase |-> "none", errorBefore |-> FALSE, done |-> FALSE, logged |-> 0,
          external |-> FALSE, out |-> NoUpdate, after |-> initialState]

\* the graph before graph.stream(initialState), and runAgent before its loop:
\* next is the node to run, running the node inside its external call, queue
\* the updates streamed and not read yet, cur the update runAgent has read and
\* not merged yet (taken), agent runAgent's position, consumed the number of
\* updates it has merged, runs the invocations so far
IdleGraph == [next |-> "plan", running |-> "none", queue |-> <<>>, cur |-> NoUpdate,
              taken |-> FALSE, agent |-> "loop", consumed |-> 0, runs |-> <<>>]

\* runHybridDetectors not yet called
NoHybrid == [pc |-> "start", quick |-> <<>>, ai |-> <<>>, deep |-> "none", out |-> <<>>]

NoGraph == ch = initialState /\ gph = IdleGraph /\ hyb = NoHybrid

\* ------------------------------------------------------------ searchCode
\* greptile.ts: const MIN_SEARCH_INTERVAL = 500
MIN_SEARCH_INTERVAL == 500

\* the callers of searchCode
Searchers == {"k1", "k2", "k3"}

\* greptile.ts: const REINDEX_DELAY_MS = 30000, const MAX_REINDEX_ATTEMPTS = 2
REINDEX_DELAY_MS == 30000
MAX_REINDEX_ATTEMPTS == 2

\* a searchCode call: its position, the time its sleep ends, its arguments
\* retryOnExpired and reindexAttempt, how it ended; and history: the search
\* requests it sent and the re-indexes it started, recursive calls included
IdleSearch == [pc |-> "idle", wake |-> 0, retryOnExpired |-> TRUE, reindexAttempt |-> 0,
               out |-> "none", requests |-> 0, reindexes |-> 0]

\* the module as loaded: lastSearchTime = 0, no call made; the clock reads some
\* time well after the epoch
NoSearch ==
  /\ clock = 2 * MIN_SEARCH_INTERVAL
  /\ lastSearchTime = 0
  /\ srch = [k \in Searchers |-> IdleSearch]
  /\ sentAt = <<>>

\* searchCode from "lastSearchTime = Date.now()" on: the stamp, then the cache
\* lookup, made on the first attempt only; a cached result is returned without
\* a request, otherwise the request is sent
Stamp(k) ==
  /\ lastSearchTime' = clock
  /\ \E cached \in (IF srch[k].reindexAttempt = 0 THEN BOOLEAN ELSE {FALSE}) :
       /\ sentAt' = IF cached THEN sentAt ELSE Append(sentAt, clock)
       /\ srch' = [srch EXCEPT ![k].pc = IF cached THEN "done" ELSE "sent",
                               ![k].wake = 0,
                               ![k].out = IF cached THEN "cached" ELSE @,
                               ![k].requests = IF cached THEN @ ELSE @ + 1]

\* searchCode is called: now = Date.now(), and either the call sleeps for what
\* is left of the interval or it goes on at once
searchCode(k) ==
  /\ srch[k].pc = "idle"
  /\ LET now == clock
         timeSinceLastSearch == now - lastSearchTime
     IN IF timeSinceLastSearch < MIN_SEARCH_INTERVAL
        THEN /\ srch' = [srch EXCEPT
                          ![k].pc = "sleep",
                          ![k].wake = now + (MIN_SEARCH_INTERVAL - timeSinceLastSearch)]
             /\ UNCHANGED <<lastSearchTime, sentAt>>
        ELSE Stamp(k)
  /\ UNCHANGED <<clock, storeVars, agentVars, explainVars, streamVars, postVars,
                 graphVars, hyb>>

\* sleep's timer has fired (at its time or later) and the call goes on
Wake(k) ==
  /\ srch[k].pc = "sleep"
  /\ clock >= srch[k].wake
  /\ Stamp(k)
  /\ UNCHANGED <<clock, storeVars, agentVars, explainVars, streamVars, postVars,
                 graphVars, hyb>>

\* time passes
Advances == {100, 300}
Advance ==
  /\ \E d \in Advances : clock + d <= MaxClock /\ clock' = clock + d
  /\ UNCHANGED <<lastSearchTime, srch, sentAt, storeVars, agentVars, explainVars,
                 streamVars, postVars, graphVars, hyb>>

EmptyStore == [s \in ScanIds |-> Absent]
\* readRealScansFromDisk resets the file to "{}"
ResetStore == EmptyStore
\* the shared temporary file: whether it exists, and whether it holds a complete
\* JSON document
NoTmp == [exists |-> FALSE, whole |-> FALSE, content |-> EmptyStore]
\* what scans.json can hold: a JSON object, nothing (no file), text that does
\* not parse, or JSON that is not an object
FileStates == {"ok", "missing", "corrupt", "notobject"}

\* A store call in progress.  fd is the file its open descriptor refers to ("tmp",
\* "file" once the temporary file was renamed over scans.json, "gone" once it was
\* unlinked or replaced); torn says another writer wrote other data through a
\* descriptor of the same file; why says which write is in progress: the commit of an
\* operation, or the reset of a file found in that state.
IdleTask == [pc |-> "idle", op |-> "none", snap |-> Absent, patch |-> NoPatch,
             content |-> EmptyStore, failed |-> FALSE, arg |-> Absent,
             keys |-> {}, found |-> "none", why |-> "none", fd |-> "none",
             torn |-> FALSE]
DoneTask == [IdleTask EXCEPT !.pc = "done"]

\* the scan a task works on
ScanOf(t) == IF t \in Others THEN "s2" ELSE "s1"

\* the store calls that have been started and have not finished
InFlight == {t \in Tasks \ {"bg"} : task[t].pc \notin {"idle", "done"}}

\* ------------------------------------------------------------ withLock
\* withLock: "await writeLock".  A pending promise suspends the caller; a resolved
\* one queues its continuation as a microtask.
AwaitLock(t, q, lw) ==
  IF writeLock \in pending
  THEN [mq |-> q, lockWait |-> Append(lw, [task |-> t, on |-> writeLock])]
  ELSE [mq |-> Append(q, t), lockWait |-> lw]

\* withLock: resolveNextLock() in the finally block.  Every caller suspended on
\* the promise is queued, in the order it began to wait.
Release(t, q, lw) ==
  LET woken == SelectSeq(lw, LAMBDA w : w.on = t)
  IN [mq |-> q \o [i \in 1..Len(woken) |-> woken[i].task],
      lockWait |-> SelectSeq(lw, LAMBDA w : w.on # t)]

\* withLock after "await writeLock": writeLock = nextLock, then operation() runs
\* up to its first file access.
Resume(t) ==
  /\ mq # <<>> /\ Head(mq) = t
  /\ task[t].pc = "wait"
  /\ writeLock' = t
  /\ pending' = pending \cup {t}
  /\ mq' = Tail(mq)
  /\ task' = [task EXCEPT ![t].pc = CASE task[t].op = "get" -> "getRead"
                                      [] task[t].op = "upd" -> "updRead"
                                      [] task[t].op = "save" -> "saveRead"
                                      [] OTHER -> "idsRead"]
  /\ UNCHANGED <<disk, file, tmp, lockWait, agentVars, explainVars, streamVars, postVars, searchVars, graphVars, hyb>>

\* saveLogImmediately after "await getScan": if (scan) updateScan(scanId,
\* { logs: [...scan.logs, newLog] })
GetCont(t) ==
  /\ mq # <<>> /\ Head(mq) = t
  /\ task[t].pc = "getCont"
  /\ IF task[t].snap.exists
     THEN LET a == AwaitLock(t, Tail(mq), lockWait)
          IN /\ mq' = a.mq
             /\ lockWait' = a.lockWait
             /\ task' = [task EXCEPT ![t] = [IdleTask EXCEPT
                           !.pc = "wait", !.op = "upd",
                           !.patch = LogsPatch(Append(task[t].snap.logs, t))]]
     ELSE /\ mq' = Tail(mq)
          /\ lockWait' = lockWait
          /\ task' = [task EXCEPT ![t] = DoneTask]
  /\ UNCHANGED <<disk, file, tmp, writeLock, pending, agentVars, explainVars,
                 streamVars, postVars, searchVars, graphVars, hyb>>

\* what a call leaves of its task once it has settled: a write-through keeps
\* nothing, runAgentInBackground goes on after its await, a client keeps the
\* outcome of its call
Settled(t, r, failed) ==
  IF t = "bg" THEN [IdleTask EXCEPT !.pc = "updCont", !.failed = failed]
  ELSE IF t \in Sites THEN DoneTask
  ELSE [IdleTask EXCEPT !.pc = "done", !.op = r.op, !.arg = r.arg, !.patch = r.patch,
                        !.found = r.found, !.snap = r.snap, !.keys = r.keys,
                        !.failed = failed]

SettleWithoutFinally(t, failed, tk) ==
  /\ LET r == Release(t, mq, lockWait)
     IN /\ mq' = IF failed THEN (IF t = "bg" THEN Append(mq, t) ELSE mq)
                 ELSE IF t = "bg" THEN Append(r.mq, t) ELSE r.mq
        /\ lockWait' = IF failed THEN lockWait ELSE r.lockWait
  /\ pending' = IF failed THEN pending ELSE pending \ {t}
  /\ task' = [tk EXCEPT ![t] = Settled(t, tk[t], failed)]

\* a call that has settled: the lock is released.  tk is the task table as the
\* step's file accesses left it.
Settle(t, failed, tk) ==
  /\ LET r == Release(t, mq, lockWait)
     IN /\ mq' = IF t = "bg" THEN Append(r.mq, t) ELSE r.mq
        /\ lockWait' = r.lockWait
  /\ pending' = pending \ {t}
  /\ task' = [tk EXCEPT ![t] = Settled(t, tk[t], failed)]

\* the ids getScanIds answers with: the demo ids and the keys of the real store
DemoIds == {"demo-express", "demo-flask"}
IdsOf(real) == DemoIds \cup {s \in ScanIds : real[s].exists}

\* The operation proper, once readRealScansFromDisk has returned realScans:
\* getScan returns realScans[id] || null and getScanIds the keys, the lock is
\* released and a write-through's continuation runs after the callers the
\* release has woken; updateScan throws if the id is absent and otherwise merges;
\* saveScan assigns realScans[scan.id]; both then write the store.
AfterRead(t, real, tk) ==
  LET s == ScanOf(t)
      r == tk[t]
  IN CASE r.op = "get" ->
            /\ LET rel == Release(t, mq, lockWait)
               IN /\ mq' = IF t \in Sites THEN Append(rel.mq, t) ELSE rel.mq
                  /\ lockWait' = rel.lockWait
            /\ pending' = pending \ {t}
            /\ task' = [tk EXCEPT ![t] =
                          IF t \in Sites
                          THEN [IdleTask EXCEPT !.pc = "getCont", !.op = "get",
                                                !.snap = real[s]]
                          ELSE Settled(t, [r EXCEPT !.snap = real[s]], FALSE)]
       [] r.op = "ids" ->
            Settle(t, FALSE, [tk EXCEPT ![t].keys = IdsOf(real)])
       [] r.op = "upd" ->
            IF real[s].exists
            THEN /\ task' = [tk EXCEPT ![t] = [r EXCEPT
                               !.pc = "updOpen", !.why = "commit",
                               !.snap = IF t \in Clients THEN real[s] ELSE @,
                               !.content = [real EXCEPT ![s] =
                                              MergeRecord(real[s], r.patch)]]]
                 /\ UNCHANGED <<mq, lockWait, pending>>
            ELSE Settle(t, TRUE, tk)
       [] OTHER ->
            /\ task' = [tk EXCEPT ![t] = [r EXCEPT
                          !.pc = "updOpen", !.why = "commit", !.snap = real[s],
                          !.content = [real EXCEPT ![s] = r.arg]]]
            /\ UNCHANGED <<mq, lockWait, pending>>

\* readRealScansFromDisk: readFile and JSON.parse.  A JSON object is returned;
\* for anything else the file is first rewritten as ResetStore.
Read(t) ==
  /\ mq = <<>>
  /\ IF file = "ok"
     THEN AfterRead(t, disk, [task EXCEPT ![t].found =
                                IF t \in Clients THEN "ok" ELSE @])
     ELSE /\ task' = [task EXCEPT ![t].pc = "updOpen", ![t].why = file,
                                  ![t].found = IF t \in Clients THEN file ELSE @,
                                  ![t].content = ResetStore]
          /\ UNCHANGED <<mq, lockWait, pending>>
  /\ UNCHANGED <<disk, file, tmp, writeLock, agentVars, explainVars, streamVars, postVars, searchVars, graphVars, hyb>>

GetReadResetting(t) ==
  /\ task[t].pc = "getRead"
  /\ mq = <<>>
  /\ task' = [task EXCEPT ![t].pc = "updOpen", ![t].why = "notobject",
                           ![t].found = IF t \in Clients THEN file ELSE @,
                           ![t].content = ResetStore]
  /\ UNCHANGED <<disk, file, tmp, writeLock, mq, lockWait, pending, agentVars,
                 explainVars, streamVars, postVars, searchVars, graphVars, hyb>>

GetRead(t) == task[t].pc = "getRead" /\ Read(t)
UpdRead(t) == task[t].pc = "updRead" /\ Read(t)
SaveRead(t) == task[t].pc = "saveRead" /\ Read(t)
IdsRead(t) == task[t].pc = "idsRead" /\ Read(t)

\* the descriptors open on one file now refer to another
Retarget(tk, from, to) ==
  [u \in Tasks |-> IF tk[u].fd = from THEN [tk[u] EXCEPT !.fd = to] ELSE tk[u]]

\* writeRealScansToDisk: fs.writeFile(tempFile, jsonData) opens the file and
\* truncates it
UpdOpen(t) ==
  /\ mq = <<>>
  /\ task[t].pc = "updOpen"
  /\ tmp' = [exists |-> TRUE, whole |-> FALSE, content |-> EmptyStore]
  /\ task' = [u \in Tasks |->
                IF u = t THEN [task[t] EXCEPT !.pc = "updWrite", !.fd = "tmp",
                                              !.torn = FALSE]
                ELSE IF task[u].fd = "tmp" THEN [task[u] EXCEPT !.torn = FALSE]
                ELSE task[u]]
  /\ UNCHANGED <<disk, file, writeLock, pending, lockWait, mq, agentVars,
                 explainVars, streamVars, postVars, searchVars, graphVars, hyb>>

\* writeRealScansToDisk: fs.writeFile(tempFile, jsonData) writes and closes.  The
\* data lands in the file the descriptor refers to by now; over the different
\* data another writer wrote through its own descriptor, the result may or may
\* not be a complete document.
UpdWrite(t) ==
  /\ mq = <<>>
  /\ task[t].pc = "updWrite"
  /\ \E w \in (IF task[t].torn THEN BOOLEAN ELSE {TRUE}) :
       LET c == IF w THEN task[t].content ELSE EmptyStore
       IN CASE task[t].fd = "tmp" ->
                 /\ tmp' = [exists |-> TRUE, whole |-> w, content |-> c]
                 /\ UNCHANGED <<disk, file>>
            [] task[t].fd = "file" ->
                 /\ file' = IF w THEN "ok" ELSE "corrupt"
                 /\ disk' = c
                 /\ UNCHANGED tmp
            [] OTHER -> UNCHANGED <<disk, file, tmp>>
  /\ task' = [u \in Tasks |->
                IF u = t THEN [task[t] EXCEPT !.pc = "updVerify", !.fd = "none",
                                              !.torn = FALSE]
                ELSE IF task[u].fd = task[t].fd /\ task[u].content # task[t].content
                     THEN [task[u] EXCEPT !.torn = TRUE]
                ELSE task[u]]
  /\ UNCHANGED <<writeLock, pending, lockWait, mq, agentVars, explainVars,
                 streamVars, postVars, searchVars, graphVars, hyb>>

\* writeRealScansToDisk: fs.readFile(tempFile) and JSON.parse
UpdVerify(t) ==
  /\ mq = <<>>
  /\ task[t].pc = "updVerify"
  /\ task' = [task EXCEPT ![t].pc = IF tmp.exists /\ tmp.whole
                                     THEN "updRename" ELSE "updUnlink"]
  /\ UNCHANGED <<disk, file, tmp, writeLock, pending, lockWait, mq, agentVars,
                 explainVars, streamVars, postVars, searchVars, graphVars, hyb>>

\* writeRealScansToDisk: fs.rename(tempFile, SCANS_FILE).  After a commit the
\* call settles; after a reset readRealScansFromDisk returns {}.
UpdRename(t) ==
  /\ mq = <<>>
  /\ task[t].pc = "updRename"
  /\ IF tmp.exists
     THEN /\ file' = IF tmp.whole THEN "ok" ELSE "corrupt"
          /\ disk' = tmp.content
          /\ tmp' = NoTmp
          /\ LET tk == Retarget(Retarget(task, "file", "gone"), "tmp", "file")
             IN IF task[t].why = "commit"
                THEN Settle(t, FALSE, tk)
                ELSE AfterRead(t, ResetStore, tk)
     ELSE /\ task' = [task EXCEPT ![t].pc = "updUnlink"]
          /\ UNCHANGED <<disk, file, tmp, mq, lockWait, pending>>
  /\ UNCHANGED <<writeLock, agentVars, explainVars, streamVars, postVars, searchVars, graphVars, hyb>>

\* writeRealScansToDisk, catch: fs.unlink(tempFile), then the error is thrown on.
\* readRealScansFromDisk catches the failed reset of a file that was not an
\* object and resets once more.
UpdUnlink(t) ==
  /\ mq = <<>>
  /\ task[t].pc = "updUnlink"
  /\ tmp' = NoTmp
  /\ LET tk == Retarget(task, "tmp", "gone")
     IN IF task[t].why = "notobject"
        THEN /\ task' = [tk EXCEPT ![t].pc = "updOpen", ![t].why = "corrupt"]
             /\ UNCHANGED <<mq, lockWait, pending>>
        ELSE Settle(t, TRUE, tk)
  /\ UNCHANGED <<disk, file, writeLock, agentVars, explainVars, streamVars, postVars, searchVars, graphVars, hyb>>

\* ------------------------------------------------------------ the nodes
\* the write-through tasks whose file accesses were interleaved with other events
Slow == {t \in Sites : task[t].pc # "idle"}

\* addLog: the entry goes to the node's updates, and saveLogImmediately is
\* started without being awaited; it runs up to "await getScan(scanId)".
AddLogSlow(e) ==
  /\ Cardinality(Slow) < MaxSlow
  /\ LET a == AwaitLock(e, mq, lockWait)
     IN /\ mq' = a.mq
        /\ lockWait' = a.lockWait
  /\ task' = [task EXCEPT ![e] = [IdleTask EXCEPT !.pc = "wait", !.op = "get"]]
  /\ emitted' = Append(emitted, e)
  /\ UNCHANGED <<disk, file, tmp, writeLock, pending>>

\* addLog when no store call is in progress and the write-through's getScan and
\* updateScan both finish before any other event: the entry is appended to the
\* stored logs, and writeLock is left holding the resolved promise of its updateScan.
\* A file that does not hold an object is reset by getScan, which returns null.
AddLogFast(e) ==
  /\ InFlight = {}
  /\ IF file = "ok"
     THEN disk' = [disk EXCEPT ![ScanOf(e)] =
                    IF @.exists THEN MergeRecord(@, LogsPatch(Append(@.logs, e)))
                    ELSE @]
     ELSE disk' = ResetStore
  /\ file' = "ok"
  /\ writeLock' = e
  /\ emitted' = Append(emitted, e)
  /\ UNCHANGED <<tmp, pending, lockWait, mq, task>>

AddLog(e) == AddLogSlow(e) \/ AddLogFast(e)

\* runAgent: one turn of "for await (const update of stream)"; break on error
Deliver(out, next) ==
  /\ st' = MergeNodeOutput(st, out)
  /\ outs' = Append(outs, IF "logs" \in out.has THEN out.logs ELSE <<>>)
  /\ upd' = <<>>
  /\ pc' = IF "error" \in out.has /\ out.error # "" THEN "finish" ELSE next

\* a node up to its external call: its first addLog
Enter(phase, site, next) ==
  /\ mq = <<>>
  /\ pc = phase
  /\ AddLog(site)
  /\ upd' = <<site>>
  /\ pc' = next
  /\ UNCHANGED <<st, outs, hunt, explainVars, streamVars, postVars, searchVars, graphVars, hyb>>

\* a node whose guard returns {} at once
Skip(phase, next) ==
  /\ mq = <<>>
  /\ pc = phase
  /\ Deliver(NoUpdate, next)
  /\ UNCHANGED <<storeVars, hunt, emitted, explainVars, streamVars, postVars, searchVars, graphVars, hyb>>

\* a node's catch block: return { error, ...addLog(state, phase, "Error: ...") }
Throw(at, site) ==
  /\ mq = <<>>
  /\ pc = at
  /\ AddLog(site)
  /\ Deliver([NoUpdate EXCEPT !.has = {"error", "logs"}, !.error = site,
                              !.logs = <<site>>], "finish")
  /\ UNCHANGED <<explainVars, streamVars, postVars, searchVars, graphVars, hyb>>

\* whether GitHub serves the repository's file tree (on main or on master)
TreeStates == {"ok", "unreachable"}

\* getRepoMetadata: the languages, frameworks and file count of what getRepoTree
\* returned.  getRepoTree catches the failure of both fetches and returns [],
\* so an unreachable tree gives the metadata of a repository with no file.
getRepoMetadata(tree) ==
  IF tree = "ok" THEN RepoMeta ELSE [RepoMeta EXCEPT !.totalFiles = 0]

PlanEnter == Enter("plan", "plan:init", "planCall")

\* planNode: getRepoMetadata returned
PlanReturn ==
  /\ mq = <<>>
  /\ pc = "planCall"
  /\ AddLog("plan:files")
  /\ Deliver([NoUpdate EXCEPT !.has = {"logs", "repoMetadata"},
                              !.logs = Append(upd, "plan:files"),
                              !.repoMetadata = getRepoMetadata(hunt.tree)], "hunt")
  /\ UNCHANGED <<hunt, explainVars, streamVars, postVars, searchVars, graphVars, hyb>>

\* planNode: the metadata call threw and the catch block ran
PlanThrow == Throw("planCall", "plan:error") /\ UNCHANGED hunt

\* huntNode: "if (state.error) return {}" cannot hold here, runAgent has stopped
HuntEnter == Enter("hunt", "hunt:start", "huntCall")

\* the findings runAllDetectors may return
HuntResults == {<<>>, <<RawA>>, <<RawB, RawC>>}

\* the findings runGreptileDetectors may return
AiResults == {<<>>, <<RawA>>, <<RawC>>}

\* process.env.USE_GREPTILE, normalised: "true", "hybrid", anything else
Modes == {"false", "true", "hybrid"}

NoHunt == [mode |-> "false", tree |-> "ok", primary |-> "none",
           fallback |-> "none", fb |-> <<>>]

\* runAllDetectors: the findings of the code files of what getRepoTree
\* returned; an unreachable tree gives no file to scan and no finding
runAllDetectors(tree) == IF tree = "ok" THEN HuntResults ELSE {<<>>}

\* runHybridDetectors: hasCriticalIssues
hasCriticalIssues(fs) ==
  \E i \in 1..Len(fs) :
    /\ fs[i].category = "security"
    /\ fs[i].ruleId \in {"sql-injection", "hardcoded-secrets", "eval-usage"}

\* deduplicateFindings: the first finding of each file:line:ruleId is kept
deduplicateFindings(fs) ==
  SelectSeq([i \in 1..Len(fs) |-> [f |-> fs[i], first |->
               ~\E j \in 1..(i - 1) : /\ fs[j].file = fs[i].file
                                       /\ fs[j].line = fs[i].line
                                       /\ fs[j].ruleId = fs[i].ruleId]],
            LAMBDA x : x.first)

Dedup(fs) == LET d == deduplicateFindings(fs) IN [i \in 1..Len(d) |-> d[i].f]

\* what the primary strategy returns when it does not throw: runGreptileDetectors,
\* or runHybridDetectors (the quick scan, merged with the deep scan when the quick
\* scan found a critical issue and the deep scan did not throw)
PrimaryResults(mode) ==
  IF mode = "true" THEN AiResults
  ELSE LET quick == runAllDetectors(hunt.tree)
       IN {q \in quick : ~hasCriticalIssues(q)}
          \cup {q \in quick : hasCriticalIssues(q)}
          \cup {Dedup(q \o ai) : q \in {r \in quick : hasCriticalIssues(r)},
                                  ai \in AiResults}

\* huntNode: the primary strategy of the AI and hybrid modes returned
HuntPrimaryReturn ==
  /\ mq = <<>>
  /\ pc = "huntCall"
  /\ hunt.mode \in {"true", "hybrid"}
  /\ AddLog("hunt:maint")
  /\ \E findings \in PrimaryResults(hunt.mode) :
       Deliver([NoUpdate EXCEPT !.has = {"logs", "findings"},
                                !.logs = Append(upd, "hunt:maint"),
                                !.findings = findings], "explain")
  /\ hunt' = [hunt EXCEPT !.primary = "returned"]
  /\ UNCHANGED <<explainVars, streamVars, postVars, searchVars, graphVars, hyb>>

\* huntNode: the primary strategy threw; the inner catch logs the fallback and
\* calls runAllDetectors
HuntPrimaryThrow ==
  /\ mq = <<>>
  /\ pc = "huntCall"
  /\ hunt.mode \in {"true", "hybrid"}
  /\ AddLog("hunt:fallback")
  /\ upd' = Append(upd, "hunt:fallback")
  /\ pc' = "huntFallback"
  /\ hunt' = [hunt EXCEPT !.primary = "threw"]
  /\ UNCHANGED <<st, outs, explainVars, streamVars, postVars, searchVars, graphVars, hyb>>

\* runAllDetectors is running: as the default mode's scan, or as the fallback
InPatternScan ==
  \/ pc = "huntCall" /\ hunt.mode = "false"
  \/ pc = "huntFallback"

\* huntNode: runAllDetectors returned
HuntReturn ==
  /\ mq = <<>>
  /\ InPatternScan
  /\ AddLog("hunt:maint")
  /\ \E findings \in runAllDetectors(hunt.tree) :
       /\ Deliver([NoUpdate EXCEPT !.has = {"logs", "findings"},
                                   !.logs = Append(upd, "hunt:maint"),
                                   !.findings = findings], "explain")
       /\ hunt' = IF pc = "huntFallback"
                  THEN [hunt EXCEPT !.fallback = "returned", !.fb = findings]
                  ELSE hunt
  /\ UNCHANGED <<explainVars, streamVars, postVars, searchVars, graphVars, hyb>>

\* huntNode: runAllDetectors threw, the outer catch block ran
HuntThrow ==
  /\ InPatternScan
  /\ Throw(pc, "hunt:error")
  /\ hunt' = IF pc = "huntFallback" THEN [hunt EXCEPT !.fallback = "threw"] ELSE hunt

\* explainNode: skipped when there is an error or no finding
ExplainSkip ==
  /\ (st.error # "" \/ Len(st.findings) = 0)
  /\ Skip("explain", "write")

ExplainEnter ==
  /\ ~(st.error # "" \/ Len(st.findings) = 0)
  /\ Enter("explain", "explain:start", "explainCall")

\* explainNode: every batch is done; the items in throws took the catch branch
ExplainReturn ==
  /\ mq = <<>>
  /\ pc = "explainCall"
  /\ AddLog("explain:impact")
  /\ \E throws \in SUBSET (1..Len(st.findings)) :
       Deliver([NoUpdate EXCEPT !.has = {"logs", "enrichedFindings"},
                  !.logs = Append(upd, "explain:impact"),
                  !.enrichedFindings =
                     [i \in 1..Len(st.findings) |-> EnrichItem(st.findings[i], i \in throws)]],
               "write")
  /\ UNCHANGED <<hunt, explainVars, streamVars, postVars, searchVars, graphVars, hyb>>

\* writeNode: skipped when there is an error or no enriched finding
WriteSkip ==
  /\ (st.error # "" \/ Len(st.enrichedFindings) = 0)
  /\ Skip("write", "finish")

WriteEnter ==
  /\ ~(st.error # "" \/ Len(st.enrichedFindings) = 0)
  /\ Enter("write", "write:start", "writeCall")

\* writeNode: return updates (logs only)
WriteReturn ==
  /\ mq = <<>>
  /\ pc = "writeCall"
  /\ AddLog("write:done")
  /\ Deliver([NoUpdate EXCEPT !.has = {"logs"}, !.logs = Append(upd, "write:done")],
             "finish")
  /\ UNCHANGED <<hunt, explainVars, streamVars, postVars, searchVars, graphVars, hyb>>

\* ------------------------------------------------------------ runAgentInBackground
\* runAgent has returned: "await updateScan(scanId, ...)", failed or completed
Finish ==
  /\ mq = <<>>
  /\ pc = "finish"
  /\ pc' = "bgUpdate"
  /\ LET a == AwaitLock("bg", mq, lockWait)
     IN /\ mq' = a.mq
        /\ lockWait' = a.lockWait
  /\ task' = [task EXCEPT !["bg"] = [IdleTask EXCEPT !.pc = "wait", !.op = "upd",
                                                     !.patch = FinalPatch(st)]]
  /\ UNCHANGED <<disk, file, tmp, writeLock, pending, st, upd, outs, hunt, emitted, explainVars, streamVars, postVars, searchVars, graphVars, hyb>>

\* after the await: done, or the catch block's updateScan(status failed, one
\* fatal entry), whose own failure is swallowed
BgCont ==
  /\ mq # <<>> /\ Head(mq) = "bg"
  /\ task["bg"].pc = "updCont"
  /\ IF task["bg"].failed /\ pc = "bgUpdate"
     THEN LET a == AwaitLock("bg", Tail(mq), lockWait)
          IN /\ mq' = a.mq
             /\ lockWait' = a.lockWait
             /\ pc' = "bgFatal"
             /\ task' = [task EXCEPT !["bg"] = [IdleTask EXCEPT
                           !.pc = "wait", !.op = "upd", !.patch = FatalPatch]]
     ELSE /\ mq' = Tail(mq)
          /\ lockWait' = lockWait
          /\ pc' = IF task["bg"].failed THEN "doneThrew"
                   ELSE IF pc = "bgFatal" THEN "doneFatal" ELSE "done"
          /\ task' = [task EXCEPT !["bg"] = DoneTask]
  /\ UNCHANGED <<disk, file, tmp, writeLock, pending, st, upd, outs, hunt, emitted, explainVars, streamVars, postVars, searchVars, graphVars, hyb>>

\* ------------------------------------------------------------ Spec
Init ==
  /\ disk = [s \in ScanIds |-> initialScan]
  /\ file = "ok"
  /\ obs = [o \in Observers |-> NoStream]
  /\ post = NoPost
  /\ NoSearch
  /\ NoGraph
  /\ exRun = NoRunning
  /\ tmp = NoTmp
  /\ writeLock = "init"
  /\ pending = {}
  /\ lockWait = <<>>
  /\ mq = <<>>
  /\ task = [t \in Tasks |-> IdleTask]
  /\ pc = "plan"
  /\ st = initialState
  /\ upd = <<>>
  /\ outs = <<>>
  /\ hunt \in {[NoHunt EXCEPT !.mode = m, !.tree = t] : m \in Modes, t \in TreeStates}
  /\ emitted = <<>>
  /\ exIn = <<>>
  /\ exThrows = {}
  /\ exOut = <<>>
  /\ exI = 0
  /\ exRet = NoUpdate
  /\ exPc = "off"

Next ==
  \/ \E t \in Tasks : Resume(t)
  \/ \E t \in Sites : GetRead(t)
  \/ \E t \in Sites : GetCont(t)
  \/ \E t \in Tasks : UpdRead(t)
  \/ \E t \in Tasks : UpdOpen(t)
  \/ \E t \in Tasks : UpdWrite(t)
  \/ \E t \in Tasks : UpdVerify(t)
  \/ \E t \in Tasks : UpdRename(t)
  \/ \E t \in Tasks : UpdUnlink(t)
  \/ PlanEnter \/ PlanReturn \/ PlanThrow
  \/ HuntEnter \/ HuntPrimaryReturn \/ HuntPrimaryThrow \/ HuntReturn \/ HuntThrow
  \/ ExplainSkip \/ ExplainEnter \/ ExplainReturn
  \/ WriteSkip \/ WriteEnter \/ WriteReturn
  \/ Finish \/ BgCont

Spec == Init /\ [][Next]_vars

\* ------------------------------------------------------------ SpecExplain
\* explainNode by itself, on every list of at most MaxFindings raw findings.
\* The store is left out: its addLog calls only start write-throughs.
RECURSIVE SeqsUpTo(_, _)
SeqsUpTo(S, n) ==
  IF n = 0 THEN {<<>>}
  ELSE LET shorter == SeqsUpTo(S, n - 1)
       IN shorter \cup {Append(q, x) : q \in {r \in shorter : Len(r) = n - 1}, x \in S}

ExplainItems == {RawA, RawC, RawD}

Min(a, b) == IF a < b THEN a ELSE b

\* explainNode: the guard, then the first two log entries
ExStart ==
  /\ exPc = "start"
  /\ IF Len(exIn) = 0
     THEN exPc' = "done" /\ exRet' = NoUpdate
     ELSE exPc' = "loop" /\ exRet' = [NoUpdate EXCEPT !.has = {"logs"},
                                        !.logs = <<"explain:start", "explain:count">>]
  /\ UNCHANGED <<exIn, exThrows, exOut, exI, exRun, storeVars, agentVars, streamVars,
                 postVars, searchVars, graphVars, hyb>>

\* explainNode: one turn of "for (let i = 0; i < state.findings.length; i += 5)":
\* batch = slice(i, i + 5), Promise.all over the batch, push(...batchResults).
\* thrown are the items of the batch whose enrichment throws.
ExBatch ==
  /\ exPc = "loop"
  /\ exI < Len(exIn)
  /\ LET last == Min(exI + BatchSize, Len(exIn))
     IN \E thrown \in SUBSET ((exI + 1)..last) :
          /\ exOut' = exOut \o [k \in 1..(last - exI) |->
                                  EnrichItem(exIn[exI + k], (exI + k) \in thrown)]
          /\ exThrows' = exThrows \cup thrown
  /\ exI' = exI + BatchSize
  /\ exRet' = [exRet EXCEPT !.logs = Append(@, "explain:batch")]
  /\ UNCHANGED <<exIn, exPc, exRun, storeVars, agentVars, streamVars, postVars,
                 searchVars, graphVars, hyb>>

\* explainNode: after the loop, updates.enrichedFindings = enrichedFindings
ExReturn ==
  /\ exPc = "loop"
  /\ exI >= Len(exIn)
  /\ exRet' = [exRet EXCEPT !.has = @ \cup {"enrichedFindings"},
                            !.enrichedFindings = exOut,
                            !.logs = Append(@, "explain:impact")]
  /\ exPc' = "done"
  /\ UNCHANGED <<exIn, exThrows, exOut, exI, exRun, storeVars, agentVars, streamVars,
                 postVars, searchVars, graphVars, hyb>>

InitExplain ==
  /\ disk = [s \in ScanIds |-> initialScan]
  /\ file = "ok"
  /\ obs = [o \in Observers |-> NoStream]
  /\ post = NoPost
  /\ NoSearch
  /\ NoGraph
  /\ exRun = NoRunning
  /\ tmp = NoTmp
  /\ writeLock = "init"
  /\ pending = {}
  /\ lockWait = <<>>
  /\ mq = <<>>
  /\ task = [t \in Tasks |-> IdleTask]
  /\ pc = "explain"
  /\ st = initialState
  /\ upd = <<>>
  /\ outs = <<>>
  /\ hunt = [NoHunt EXCEPT !.mode = "false"]
  /\ emitted = <<>>
  /\ exIn \in SeqsUpTo(ExplainItems, MaxFindings)
  /\ exThrows = {}
  /\ exOut = <<>>
  /\ exI = 0
  /\ exRet = NoUpdate
  /\ exPc = "start"

NextExplain == ExStart \/ ExBatch \/ ExReturn

SpecExplain == InitExplain /\ [][NextExplain]_vars

\* ------------------------------------------------------------ SpecStore
\* The store under calls from request handlers, from every form scans.json can
\* be found in.  A handler's call is started by its request; the calls of
\* different requests interleave at their awaits.

\* the records saveScan is called with
SaveArgs == {[initialScan EXCEPT !.status = "completed",
                                 !.logs = <<"queued", "write:done">>]}
\* the updates updateScan is called with
UpdPatches == {LogsPatch(<<"plan:init">>), FatalPatch}

\* the requests that came before c's
Earlier(c) == {d \in Clients : <<d, c>> \in {<<"c1", "c2">>, <<"c1", "c3">>,
                 <<"c1", "c4">>, <<"c2", "c3">>, <<"c2", "c4">>, <<"c3", "c4">>}}

\* a store function is called: withLock runs up to "await writeLock"
Call(c, op, arg, patch) ==
  /\ mq = <<>>
  /\ task[c].pc = "idle"
  /\ \A d \in Earlier(c) : task[d].pc # "idle"
  /\ LET a == AwaitLock(c, mq, lockWait)
     IN /\ mq' = a.mq
        /\ lockWait' = a.lockWait
  /\ task' = [task EXCEPT ![c] = [IdleTask EXCEPT !.pc = "wait", !.op = op,
                                                   !.arg = arg, !.patch = patch]]
  /\ UNCHANGED <<disk, file, tmp, writeLock, pending, explainVars, streamVars>>

getScan(c) == Call(c, "get", Absent, NoPatch) /\ UNCHANGED <<agentVars, postVars, searchVars, graphVars, hyb>>
getScanIds(c) == Call(c, "ids", Absent, NoPatch) /\ UNCHANGED <<agentVars, postVars, searchVars, graphVars, hyb>>
saveScan(c) ==
  /\ \E a \in SaveArgs : Call(c, "save", a, NoPatch)
  /\ UNCHANGED <<agentVars, postVars, searchVars, graphVars, hyb>>
updateScan(c) ==
  /\ \E p \in UpdPatches : Call(c, "upd", Absent, p)
  /\ UNCHANGED <<agentVars, postVars, searchVars, graphVars, hyb>>

InitStore ==
  /\ file \in FileStates
  /\ disk \in (IF file = "ok" THEN {EmptyStore, [s \in ScanIds |-> initialScan]}
               ELSE {EmptyStore})
  /\ obs = [o \in Observers |-> NoStream]
  /\ post = NoPost
  /\ NoSearch
  /\ NoGraph
  /\ exRun = NoRunning
  /\ tmp = NoTmp
  /\ writeLock = "init"
  /\ pending = {}
  /\ lockWait = <<>>
  /\ mq = <<>>
  /\ task = [t \in Tasks |-> IdleTask]
  /\ pc = "off"
  /\ st = initialState
  /\ upd = <<>>
  /\ outs = <<>>
  /\ hunt = NoHunt
  /\ emitted = <<>>
  /\ exIn = <<>>
  /\ exThrows = {}
  /\ exOut = <<>>
  /\ exI = 0
  /\ exRet = NoUpdate
  /\ exPc = "off"

NextStore ==
  \/ \E c \in Clients : getScan(c)
  \/ \E c \in Clients : getScanIds(c)
  \/ \E c \in Clients : saveScan(c)
  \/ \E c \in Clients : updateScan(c)
  \/ \E c \in Clients : Resume(c)
  \/ \E c \in Clients : GetRead(c)
  \/ \E c \in Clients : IdsRead(c)
  \/ \E c \in Clients : SaveRead(c)
  \/ \E c \in Clients : UpdRead(c)
  \/ \E c \in Clients : UpdOpen(c)
  \/ \E c \in Clients : UpdWrite(c)
  \/ \E c \in Clients : UpdVerify(c)
  \/ \E c \in Clients : UpdRename(c)
  \/ \E c \in Clients : UpdUnlink(c)

SpecStore == InitStore /\ [][NextStore]_vars

\* ------------------------------------------------------------ SpecStream
\* The pipeline of one scan with the connections to its progress stream open
\* from the start, pattern detection only.

\* One run of the setInterval callback: getScan, then the events.  The call
\* finds the lock free and its read happens before any other event.
Poll(o) ==
  /\ mq = <<>>
  /\ writeLock \notin pending
  /\ file = "ok"
  /\ obs[o].open
  /\ obs' = [obs EXCEPT ![o] = Sent(@, disk["s1"])]
  /\ UNCHANGED <<storeVars, agentVars, explainVars, postVars, searchVars, graphVars, hyb>>

InitStream ==
  /\ disk = [s \in ScanIds |-> initialScan]
  /\ file = "ok"
  /\ obs = [o \in Observers |-> NewStream]
  /\ post = NoPost
  /\ NoSearch
  /\ NoGraph
  /\ exRun = NoRunning
  /\ tmp = NoTmp
  /\ writeLock = "init"
  /\ pending = {}
  /\ lockWait = <<>>
  /\ mq = <<>>
  /\ task = [t \in Tasks |-> IdleTask]
  /\ pc = "plan"
  /\ st = initialState
  /\ upd = <<>>
  /\ outs = <<>>
  /\ hunt = [NoHunt EXCEPT !.mode = "false"]
  /\ emitted = <<>>
  /\ exIn = <<>>
  /\ exThrows = {}
  /\ exOut = <<>>
  /\ exI = 0
  /\ exRet = NoUpdate
  /\ exPc = "off"

NextStream ==
  \/ \E o \in Observers : Poll(o)
  \/ \E t \in Tasks : Resume(t)
  \/ \E t \in Sites : GetRead(t)
  \/ \E t \in Sites : GetCont(t)
  \/ \E t \in Tasks : UpdRead(t)
  \/ \E t \in Tasks : UpdOpen(t)
  \/ \E t \in Tasks : UpdWrite(t)
  \/ \E t \in Tasks : UpdVerify(t)
  \/ \E t \in Tasks : UpdRename(t)
  \/ \E t \in Tasks : UpdUnlink(t)
  \/ PlanEnter \/ PlanReturn \/ PlanThrow
  \/ HuntEnter \/ HuntReturn \/ HuntThrow
  \/ ExplainSkip \/ ExplainEnter \/ ExplainReturn
  \/ WriteSkip \/ WriteEnter \/ WriteReturn
  \/ Finish \/ BgCont

SpecStream == InitStream /\ [][NextStream]_vars

\* ------------------------------------------------------------ SpecAbort
\* One connection to the progress stream, of a scan whose pipeline runs or of an
\* id that was never submitted; the client may disconnect at any time.

\* setInterval fires while the interval is set: the callback runs up to
\* "await getScan(id)"
PollStart(o) ==
  /\ mq = <<>>
  /\ obs[o].open
  /\ ~obs[o].polling
  /\ obs' = [obs EXCEPT ![o].polling = TRUE]
  /\ UNCHANGED <<storeVars, agentVars, explainVars, postVars, searchVars, graphVars, hyb>>

\* getScan returns to the callback, which sends its events.  The call finds the
\* lock free and its file accesses happen before any other event.  A file that
\* does not hold an object is reset by getScan, which returns null.
PollRead(o) ==
  /\ mq = <<>>
  /\ writeLock \notin pending
  /\ obs[o].polling
  /\ IF file = "ok"
     THEN /\ obs' = [obs EXCEPT ![o] = Sent(@, disk["s1"])]
          /\ UNCHANGED <<disk, file, tmp>>
     ELSE /\ \A t \in Tasks : task[t].pc \in {"idle", "done"}
          /\ obs' = [obs EXCEPT ![o] = Sent(@, Absent)]
          /\ disk' = ResetStore
          /\ file' = "ok"
          /\ tmp' = NoTmp
  /\ UNCHANGED <<writeLock, pending, lockWait, mq, task, agentVars, explainVars,
                 postVars, searchVars, graphVars, hyb>>

\* request.signal 'abort': clearInterval(pollInterval), controller.close()
Abort(o) ==
  /\ mq = <<>>
  /\ obs[o] # NoStream
  /\ ~obs[o].aborted
  /\ obs' = [obs EXCEPT ![o].open = FALSE, ![o].timer = FALSE, ![o].aborted = TRUE]
  /\ UNCHANGED <<storeVars, agentVars, explainVars, postVars, searchVars, graphVars, hyb>>

InitAbort ==
  /\ \/ /\ file = "ok"
        /\ disk = [s \in ScanIds |-> initialScan]
        /\ pc = "plan"
     \/ /\ file \in FileStates
        /\ disk = EmptyStore
        /\ pc = "off"
  /\ obs = [o \in Observers |-> IF o = "o1" THEN NewStream ELSE NoStream]
  /\ post = NoPost
  /\ NoSearch
  /\ NoGraph
  /\ exRun = NoRunning
  /\ tmp = NoTmp
  /\ writeLock = "init"
  /\ pending = {}
  /\ lockWait = <<>>
  /\ mq = <<>>
  /\ task = [t \in Tasks |-> IdleTask]
  /\ st = initialState
  /\ upd = <<>>
  /\ outs = <<>>
  /\ hunt = [NoHunt EXCEPT !.mode = "false"]
  /\ emitted = <<>>
  /\ exIn = <<>>
  /\ exThrows = {}
  /\ exOut = <<>>
  /\ exI = 0
  /\ exRet = NoUpdate
  /\ exPc = "off"

NextAbort ==
  \/ \E o \in Observers : PollStart(o)
  \/ \E o \in Observers : PollRead(o)
  \/ \E o \in Observers : Abort(o)
  \/ \E t \in Tasks : Resume(t)
  \/ \E t \in Sites : GetRead(t)
  \/ \E t \in Sites : GetCont(t)
  \/ \E t \in Tasks : UpdRead(t)
  \/ \E t \in Tasks : UpdOpen(t)
  \/ \E t \in Tasks : UpdWrite(t)
  \/ \E t \in Tasks : UpdVerify(t)
  \/ \E t \in Tasks : UpdRename(t)
  \/ \E t \in Tasks : UpdUnlink(t)
  \/ PlanEnter \/ PlanReturn \/ PlanThrow
  \/ HuntEnter \/ HuntReturn \/ HuntThrow
  \/ ExplainSkip \/ ExplainEnter \/ ExplainReturn
  \/ WriteSkip \/ WriteEnter \/ WriteReturn
  \/ Finish \/ BgCont

SpecAbort == InitAbort /\ [][NextAbort]_vars

\* ------------------------------------------------------------ SpecSubmit
\* One POST /api/scan request on an empty store, and the run it launches
\* (pattern detection only).

\* POST: the body is read and repoUrl validated; a request that passes calls
\* saveScan(initialScan)
Submit(u) ==
  /\ mq = <<>>
  /\ post.pc = "idle"
  /\ IF u = <<>> \/ ~urlPattern(Trim(u))
     THEN /\ post' = [pc |-> "done", url |-> u, response |-> 400]
          /\ UNCHANGED <<storeVars, agentVars, explainVars, streamVars, searchVars, graphVars, hyb>>
     ELSE /\ post' = [pc |-> "saving", url |-> u, response |-> 0]
          /\ Call("c1", "save", initialScan, NoPatch)
          /\ UNCHANGED <<agentVars, searchVars, graphVars, hyb>>

\* POST after "await saveScan": a throw is answered with 500 by the catch
\* block; otherwise the handler awaits its 500 ms timer
Saved ==
  /\ mq = <<>>
  /\ post.pc = "saving"
  /\ task["c1"].pc = "done"
  /\ post' = IF task["c1"].failed
             THEN [post EXCEPT !.pc = "done", !.response = 500]
             ELSE [post EXCEPT !.pc = "sleep"]
  /\ UNCHANGED <<storeVars, agentVars, explainVars, streamVars, searchVars, graphVars, hyb>>

\* POST after the timer: runAgentInBackground is called and not awaited, and
\* 202 is returned
Launch ==
  /\ mq = <<>>
  /\ post.pc = "sleep"
  /\ post' = [post EXCEPT !.pc = "done", !.response = 202]
  /\ pc' = "plan"
  /\ UNCHANGED <<st, upd, outs, hunt, emitted, storeVars, explainVars, streamVars,
                 searchVars, graphVars, hyb>>

InitSubmit ==
  /\ file \in {"ok", "missing"}
  /\ disk = EmptyStore
  /\ obs = [o \in Observers |-> NoStream]
  /\ post = NoPost
  /\ NoSearch
  /\ NoGraph
  /\ exRun = NoRunning
  /\ tmp = NoTmp
  /\ writeLock = "init"
  /\ pending = {}
  /\ lockWait = <<>>
  /\ mq = <<>>
  /\ task = [t \in Tasks |-> IdleTask]
  /\ pc = "off"
  /\ st = initialState
  /\ upd = <<>>
  /\ outs = <<>>
  /\ hunt = [NoHunt EXCEPT !.mode = "false"]
  /\ emitted = <<>>
  /\ exIn = <<>>
  /\ exThrows = {}
  /\ exOut = <<>>
  /\ exI = 0
  /\ exRet = NoUpdate
  /\ exPc = "off"

NextSubmit ==
  \/ \E u \in RepoUrls : Submit(u)
  \/ Saved
  \/ Launch
  \/ \E t \in Tasks : Resume(t)
  \/ \E t \in Tasks : SaveRead(t)
  \/ \E t \in Sites : GetRead(t)
  \/ \E t \in Sites : GetCont(t)
  \/ \E t \in Tasks : UpdRead(t)
  \/ \E t \in Tasks : UpdOpen(t)
  \/ \E t \in Tasks : UpdWrite(t)
  \/ \E t \in Tasks : UpdVerify(t)
  \/ \E t \in Tasks : UpdRename(t)
  \/ \E t \in Tasks : UpdUnlink(t)
  \/ PlanEnter \/ PlanReturn \/ PlanThrow
  \/ HuntEnter \/ HuntReturn \/ HuntThrow
  \/ ExplainSkip \/ ExplainEnter \/ ExplainReturn
  \/ WriteSkip \/ WriteEnter \/ WriteReturn
  \/ Finish \/ BgCont

SpecSubmit == InitSubmit /\ [][NextSubmit]_vars

\* ------------------------------------------------------------ SpecSearch
\* searchCode under concurrent callers (detectors of scans running in the same
\* process), each call at any time.  The store and the pipeline stand still.
InitSearch ==
  /\ file = "ok"
  /\ disk = EmptyStore
  /\ obs = [o \in Observers |-> NoStream]
  /\ post = NoPost
  /\ NoSearch
  /\ NoGraph
  /\ exRun = NoRunning
  /\ tmp = NoTmp
  /\ writeLock = "init"
  /\ pending = {}
  /\ lockWait = <<>>
  /\ mq = <<>>
  /\ task = [t \in Tasks |-> IdleTask]
  /\ pc = "off"
  /\ st = initialState
  /\ upd = <<>>
  /\ outs = <<>>
  /\ hunt = NoHunt
  /\ emitted = <<>>
  /\ exIn = <<>>
  /\ exThrows = {}
  /\ exOut = <<>>
  /\ exI = 0
  /\ exRet = NoUpdate
  /\ exPc = "off"

NextSearch ==
  \/ \E k \in Searchers : searchCode(k)
  \/ \E k \in Searchers : Wake(k)
  \/ Advance

SpecSearch == InitSearch /\ [][NextSearch]_vars

\* ------------------------------------------------------------ SpecHybrid
\* runHybridDetectors on the findings its two scans may return.

HybridFindings == {RawA, RawA2, RawB, RawE}

HybridResultDeepFirst(quick, threw, ai) ==
  IF ~hasCriticalIssues(quick) \/ threw THEN quick ELSE Dedup(ai \o quick)

\* runHybridDetectors: the value returned for the quick scan's findings, when
\* the deep scan threw or returned ai
HybridResult(quick, threw, ai) ==
  IF ~hasCriticalIssues(quick) \/ threw THEN quick ELSE Dedup(quick \o ai)

\* runAllDetectors returned: either the quick scan is sufficient and returned,
\* or runGreptileDetectors is called
HybridQuick ==
  /\ hyb.pc = "start"
  /\ \E quick \in SeqsUpTo(HybridFindings, MaxHybrid) :
       hyb' = IF hasCriticalIssues(quick)
              THEN [hyb EXCEPT !.pc = "deep", !.quick = quick]
              ELSE [hyb EXCEPT !.pc = "done", !.quick = quick, !.deep = "skipped",
                               !.out = HybridResult(quick, FALSE, <<>>)]
  /\ UNCHANGED <<storeVars, agentVars, explainVars, streamVars, postVars, searchVars,
                 graphVars>>

\* runGreptileDetectors returned: the merged, deduplicated findings are returned
HybridDeepReturn ==
  /\ hyb.pc = "deep"
  /\ \E ai \in SeqsUpTo(HybridFindings, MaxHybrid) :
       hyb' = [hyb EXCEPT !.pc = "done", !.ai = ai, !.deep = "returned",
                          !.out = HybridResult(hyb.quick, FALSE, ai)]
  /\ UNCHANGED <<storeVars, agentVars, explainVars, streamVars, postVars, searchVars,
                 graphVars>>

\* runGreptileDetectors threw: the quick scan's findings are returned
HybridDeepThrow ==
  /\ hyb.pc = "deep"
  /\ hyb' = [hyb EXCEPT !.pc = "done", !.deep = "threw",
                        !.out = HybridResult(hyb.quick, TRUE, <<>>)]
  /\ UNCHANGED <<storeVars, agentVars, explainVars, streamVars, postVars, searchVars,
                 graphVars>>

InitHybrid ==
  /\ file = "ok"
  /\ disk = EmptyStore
  /\ obs = [o \in Observers |-> NoStream]
  /\ post = NoPost
  /\ NoSearch
  /\ NoGraph
  /\ exRun = NoRunning
  /\ tmp = NoTmp
  /\ writeLock = "init"
  /\ pending = {}
  /\ lockWait = <<>>
  /\ mq = <<>>
  /\ task = [t \in Tasks |-> IdleTask]
  /\ pc = "off"
  /\ st = initialState
  /\ upd = <<>>
  /\ outs = <<>>
  /\ hunt = NoHunt
  /\ emitted = <<>>
  /\ exIn = <<>>
  /\ exThrows = {}
  /\ exOut = <<>>
  /\ exI = 0
  /\ exRet = NoUpdate
  /\ exPc = "off"

NextHybrid == HybridQuick \/ HybridDeepReturn \/ HybridDeepThrow

SpecHybrid == InitHybrid /\ [][NextHybrid]_vars

\* ------------------------------------------------------------ SpecReindex
\* searchCode with its answers: callers whose search request may be answered
\* 200, 410 or with another error, and the re-index a 410 starts.  Time passes
\* as far as the sleeps of the calls need it.

MayReindexOnceMore(c) == c.retryOnExpired /\ c.reindexAttempt <= MAX_REINDEX_ATTEMPTS

\* "if (retryOnExpired && reindexAttempt < MAX_REINDEX_ATTEMPTS)"
MayReindex(c) == c.retryOnExpired /\ c.reindexAttempt < MAX_REINDEX_ATTEMPTS

nonSearchVars == <<storeVars, agentVars, explainVars, streamVars, postVars, graphVars, hyb>>

\* the search request is answered 200: the results are cached and returned
SearchOk(k) ==
  /\ srch[k].pc = "sent"
  /\ srch' = [srch EXCEPT ![k].pc = "done", ![k].out = "results"]
  /\ UNCHANGED <<clock, lastSearchTime, sentAt, nonSearchVars>>

\* fetch throws, or the answer is neither 200 nor 410: the call throws
SearchFails(k) ==
  /\ srch[k].pc = "sent"
  /\ srch' = [srch EXCEPT ![k].pc = "threw", ![k].out = "api error"]
  /\ UNCHANGED <<clock, lastSearchTime, sentAt, nonSearchVars>>

\* the answer is 410: a re-index is started (clearCacheForRepo, indexRepository
\* with force), or the call throws "permanently expired"
SearchGone(k) ==
  /\ srch[k].pc = "sent"
  /\ srch' = IF MayReindex(srch[k])
             THEN [srch EXCEPT ![k].pc = "reindex", ![k].reindexes = @ + 1]
             ELSE [srch EXCEPT ![k].pc = "threw", ![k].out = "expired"]
  /\ UNCHANGED <<clock, lastSearchTime, sentAt, nonSearchVars>>

\* waitForIndexing returned true: sleep(REINDEX_DELAY_MS), then the recursive
\* call searchCode(newRepoId, grepPattern, true, reindexAttempt + 1)
Reindexed(k) ==
  /\ srch[k].pc = "reindex"
  /\ clock' = clock + REINDEX_DELAY_MS
  /\ srch' = [srch EXCEPT ![k].pc = "idle", ![k].retryOnExpired = TRUE,
                          ![k].reindexAttempt = @ + 1]
  /\ UNCHANGED <<lastSearchTime, sentAt, nonSearchVars>>

\* waitForIndexing returned false after its five minutes: the call throws
ReindexTimedOut(k) ==
  /\ srch[k].pc = "reindex"
  /\ srch' = [srch EXCEPT ![k].pc = "threw", ![k].out = "timeout"]
  /\ UNCHANGED <<clock, lastSearchTime, sentAt, nonSearchVars>>

\* indexRepository threw, or waitForIndexing threw "Repository indexing failed"
ReindexFails(k) ==
  /\ srch[k].pc = "reindex"
  /\ srch' = [srch EXCEPT ![k].pc = "threw", ![k].out = "index error"]
  /\ UNCHANGED <<clock, lastSearchTime, sentAt, nonSearchVars>>

\* time passes until the timer of a sleeping call is due
Elapse(k) ==
  /\ srch[k].pc = "sleep"
  /\ clock < srch[k].wake
  /\ clock' = srch[k].wake
  /\ UNCHANGED <<lastSearchTime, srch, sentAt, nonSearchVars>>

InitReindex ==
  /\ file = "ok"
  /\ disk = EmptyStore
  /\ obs = [o \in Observers |-> NoStream]
  /\ post = NoPost
  /\ clock = 2 * MIN_SEARCH_INTERVAL
  /\ lastSearchTime = 0
  /\ sentAt = <<>>
  /\ srch \in [Searchers -> {[IdleSearch EXCEPT !.retryOnExpired = r] : r \in BOOLEAN}]
  /\ NoGraph
  /\ exRun = NoRunning
  /\ tmp = NoTmp
  /\ writeLock = "init"
  /\ pending = {}
  /\ lockWait = <<>>
  /\ mq = <<>>
  /\ task = [t \in Tasks |-> IdleTask]
  /\ pc = "off"
  /\ st = initialState
  /\ upd = <<>>
  /\ outs = <<>>
  /\ hunt = NoHunt
  /\ emitted = <<>>
  /\ exIn = <<>>
  /\ exThrows = {}
  /\ exOut = <<>>
  /\ exI = 0
  /\ exRet = NoUpdate
  /\ exPc = "off"

StepReindex(k) ==
  \/ searchCode(k)
  \/ Wake(k)
  \/ Elapse(k)
  \/ SearchOk(k)
  \/ SearchFails(k)
  \/ SearchGone(k)
  \/ Reindexed(k)
  \/ ReindexTimedOut(k)
  \/ ReindexFails(k)

\* the callers of this specification
Reindexers == {"k1", "k2"}

NextReindex == \E k \in Reindexers : StepReindex(k)

SpecReindex == InitReindex /\ [][NextReindex]_vars

\* every external call returns, timers fire and callers go on: each step of a
\* call that can be taken is taken; which answer a request gets is not
\* constrained
FairSpecReindex ==
  /\ SpecReindex
  /\ \A k \in Reindexers :
       /\ WF_vars(searchCode(k))
       /\ WF_vars(Wake(k))
       /\ WF_vars(Elapse(k))
       /\ WF_vars(SearchOk(k) \/ SearchFails(k) \/ SearchGone(k))
       /\ WF_vars(Reindexed(k) \/ ReindexTimedOut(k) \/ ReindexFails(k))

\* ------------------------------------------------------------ SpecScans
\* Two scans in one store: updateScan calls for the first scan (c1, then c2) and
\* one for the second (d1), each made at any time.

ScanCallers == {"c1", "c2"} \cup Others

\* updateScan(id, updates) for the caller's scan
updateOwn(c) ==
  /\ \E p \in UpdPatches : Call(c, "upd", Absent, p)
  /\ UNCHANGED <<agentVars, postVars, searchVars, graphVars, hyb>>

InitScans ==
  /\ file = "ok"
  /\ disk = [s \in ScanIds |-> initialScan]
  /\ obs = [o \in Observers |-> NoStream]
  /\ post = NoPost
  /\ NoSearch
  /\ NoGraph
  /\ exRun = NoRunning
  /\ tmp = NoTmp
  /\ writeLock = "init"
  /\ pending = {}
  /\ lockWait = <<>>
  /\ mq = <<>>
  /\ task = [t \in Tasks |-> IdleTask]
  /\ pc = "off"
  /\ st = initialState
  /\ upd = <<>>
  /\ outs = <<>>
  /\ hunt = NoHunt
  /\ emitted = <<>>
  /\ exIn = <<>>
  /\ exThrows = {}
  /\ exOut = <<>>
  /\ exI = 0
  /\ exRet = NoUpdate
  /\ exPc = "off"

NextScans ==
  \/ \E c \in ScanCallers : updateOwn(c)
  \/ \E c \in ScanCallers : Resume(c)
  \/ \E c \in ScanCallers : UpdRead(c)
  \/ \E c \in ScanCallers : UpdOpen(c)
  \/ \E c \in ScanCallers : UpdWrite(c)
  \/ \E c \in ScanCallers : UpdVerify(c)
  \/ \E c \in ScanCallers : UpdRename(c)
  \/ \E c \in ScanCallers : UpdUnlink(c)

SpecScans == InitScans /\ [][NextScans]_vars

\* ------------------------------------------------------------ SpecLock
\* The updateScan calls of SpecScans on a store where the second scan's record
\* may be absent, so that d1's call throws inside withLock.

InitLock ==
  /\ file = "ok"
  /\ disk \in {[s \in ScanIds |-> initialScan],
              [s \in ScanIds |-> IF s = "s2" THEN Absent ELSE initialScan]}
  /\ obs = [o \in Observers |-> NoStream]
  /\ post = NoPost
  /\ NoSearch
  /\ NoGraph
  /\ exRun = NoRunning
  /\ tmp = NoTmp
  /\ writeLock = "init"
  /\ pending = {}
  /\ lockWait = <<>>
  /\ mq = <<>>
  /\ task = [t \in Tasks |-> IdleTask]
  /\ pc = "off"
  /\ st = initialState
  /\ upd = <<>>
  /\ outs = <<>>
  /\ hunt = NoHunt
  /\ emitted = <<>>
  /\ exIn = <<>>
  /\ exThrows = {}
  /\ exOut = <<>>
  /\ exI = 0
  /\ exRet = NoUpdate
  /\ exPc = "off"

SpecLock == InitLock /\ [][NextScans]_vars

\* the event loop runs every queued continuation, every file system call
\* returns, and every caller makes its call
FairSpecLock ==
  /\ SpecLock
  /\ \A c \in ScanCallers :
       /\ WF_vars(updateOwn(c))
       /\ WF_vars(Resume(c))
       /\ WF_vars(UpdRead(c))
       /\ WF_vars(UpdOpen(c))
       /\ WF_vars(UpdWrite(c))
       /\ WF_vars(UpdVerify(c))
       /\ WF_vars(UpdRename(c))
       /\ WF_vars(UpdUnlink(c))

\* ------------------------------------------------------------ SpecPoll
\* One connection that stays open, with runs of its interval callback that
\* overlap: setInterval fires every 500 ms whether or not the previous run has
\* come back from getScan.  The scan's record is brought forward by its run's
\* store updates, each taken whole: log write-throughs, then the final update.

\* the entries the write-throughs of the run append, in order
PollLogs == <<"plan:init", "plan:files">>

\* saveLogImmediately: updateScan(scanId, { logs: [...scan.logs, newLog] })
StoreLog ==
  /\ disk["s1"].status = "scanning"
  /\ Len(disk["s1"].logs) <= Len(PollLogs)
  /\ disk' = [disk EXCEPT !["s1"] =
                MergeRecord(@, LogsPatch(Append(@.logs, PollLogs[Len(@.logs)])))]
  /\ UNCHANGED <<file, tmp, writeLock, pending, lockWait, mq, task, agentVars, explainVars,
                 streamVars, postVars, searchVars, graphVars, hyb>>

\* runAgentInBackground: the final updateScan, for a run that failed in plan or
\* one that completed without finding
StoreFinal ==
  /\ disk["s1"].status = "scanning"
  /\ \E result \in {[initialState EXCEPT !.logs = <<"plan:error">>, !.error = "plan:error"],
                    [initialState EXCEPT !.logs = PollLogs, !.repoMetadata = RepoMeta]} :
       disk' = [disk EXCEPT !["s1"] = MergeRecord(@, FinalPatch(result))]
  /\ UNCHANGED <<file, tmp, writeLock, pending, lockWait, mq, task, agentVars, explainVars,
                 streamVars, postVars, searchVars, graphVars, hyb>>

\* setInterval fires and the callback's getScan reads the record
PollFire(o) ==
  /\ obs[o].timer
  /\ Len(obs[o].inflight) < MaxPolls
  /\ obs' = [obs EXCEPT ![o].inflight = Append(@, disk["s1"])]
  /\ UNCHANGED <<storeVars, agentVars, explainVars, postVars, searchVars, graphVars, hyb>>

\* one of the runs awaiting getScan gets its record and sends its events
PollResume(o) ==
  /\ \E i \in 1..Len(obs[o].inflight) :
       obs' = [obs EXCEPT ![o] =
                 [Sent(@, obs[o].inflight[i]) EXCEPT
                    !.inflight = [k \in 1..(Len(obs[o].inflight) - 1) |->
                                    IF k < i THEN obs[o].inflight[k]
                                    ELSE obs[o].inflight[k + 1]]]]
  /\ UNCHANGED <<storeVars, agentVars, explainVars, postVars, searchVars, graphVars, hyb>>

InitPoll ==
  /\ file = "ok"
  /\ disk = [s \in ScanIds |-> initialScan]
  /\ obs = [o \in Observers |-> IF o = "o1" THEN NewStream ELSE NoStream]
  /\ post = NoPost
  /\ NoSearch
  /\ NoGraph
  /\ exRun = NoRunning
  /\ tmp = NoTmp
  /\ writeLock = "init"
  /\ pending = {}
  /\ lockWait = <<>>
  /\ mq = <<>>
  /\ task = [t \in Tasks |-> IdleTask]
  /\ pc = "off"
  /\ st = initialState
  /\ upd = <<>>
  /\ outs = <<>>
  /\ hunt = NoHunt
  /\ emitted = <<>>
  /\ exIn = <<>>
  /\ exThrows = {}
  /\ exOut = <<>>
  /\ exI = 0
  /\ exRet = NoUpdate
  /\ exPc = "off"

NextPoll ==
  \/ StoreLog
  \/ StoreFinal
  \/ \E o \in Observers : PollFire(o)
  \/ \E o \in Observers : PollResume(o)

SpecPoll == InitPoll /\ [][NextPoll]_vars

\* ------------------------------------------------------------ SpecBatch
\* explainNode's loop item by item: a batch's callbacks are started together,
\* each finishes on its own (enriched or fallen back), Promise.all resumes the
\* loop when all have, and "await sleep(300)" follows a batch that is not the
\* last.  The findings are up to MaxFindings copies of one raw finding.

NeedsPauseAlways(i, n) == TRUE

\* explainNode: "if (i + 5 < state.findings.length) await sleep(300)"
NeedsPause(i, n) == i + BatchSize < n

\* batch = state.findings.slice(i, i + 5); batch.map(async ...) starts every
\* callback, each runs up to its first await
BatchBegin ==
  /\ exPc = "loop"
  /\ exI < Len(exIn)
  /\ exRun' = [exRun EXCEPT !.fly = (exI + 1)..Min(exI + BatchSize, Len(exIn)),
                            !.events = Append(@, "batch")]
  /\ exRet' = [exRet EXCEPT !.logs = Append(@, "explain:batch")]
  /\ exPc' = "batch"
  /\ UNCHANGED <<exIn, exThrows, exOut, exI, storeVars, agentVars, streamVars,
                 postVars, searchVars, graphVars, hyb>>

\* one callback settles: its try branch returned, or its catch branch did
ItemDone(k) ==
  /\ exPc = "batch"
  /\ k \in exRun.fly
  /\ exRun' = [exRun EXCEPT !.fly = @ \ {k}, !.finished = @ \cup {k}]
  /\ \E throws \in BOOLEAN : exThrows' = IF throws THEN exThrows \cup {k} ELSE exThrows
  /\ UNCHANGED <<exIn, exOut, exI, exRet, exPc, storeVars, agentVars, streamVars,
                 postVars, searchVars, graphVars, hyb>>

\* Promise.all has resolved: enrichedFindings.push(...batchResults), in the
\* order of the batch, then the pause unless this was the last batch
BatchEnd ==
  /\ exPc = "batch"
  /\ exRun.fly = {}
  /\ LET last == Min(exI + BatchSize, Len(exIn))
     IN exOut' = exOut \o [k \in 1..(last - exI) |->
                             EnrichItem(exIn[exI + k], (exI + k) \in exThrows)]
  /\ exPc' = IF NeedsPause(exI, Len(exIn)) THEN "pause" ELSE "next"
  /\ UNCHANGED <<exIn, exThrows, exI, exRet, exRun, storeVars, agentVars, streamVars,
                 postVars, searchVars, graphVars, hyb>>

\* await sleep(300) between two batches
Pause ==
  /\ exPc = "pause"
  /\ exRun' = [exRun EXCEPT !.events = Append(@, "pause")]
  /\ exPc' = "next"
  /\ UNCHANGED <<exIn, exThrows, exOut, exI, exRet, storeVars, agentVars, streamVars,
                 postVars, searchVars, graphVars, hyb>>

\* the loop's "i += 5"
BatchNext ==
  /\ exPc = "next"
  /\ exI' = exI + BatchSize
  /\ exPc' = "loop"
  /\ UNCHANGED <<exIn, exThrows, exOut, exRet, exRun, storeVars, agentVars, streamVars,
                 postVars, searchVars, graphVars, hyb>>

InitBatch ==
  /\ disk = [s \in ScanIds |-> initialScan]
  /\ file = "ok"
  /\ obs = [o \in Observers |-> NoStream]
  /\ post = NoPost
  /\ NoSearch
  /\ NoGraph
  /\ exRun = NoRunning
  /\ tmp = NoTmp
  /\ writeLock = "init"
  /\ pending = {}
  /\ lockWait = <<>>
  /\ mq = <<>>
  /\ task = [t \in Tasks |-> IdleTask]
  /\ pc = "explain"
  /\ st = initialState
  /\ upd = <<>>
  /\ outs = <<>>
  /\ hunt = [NoHunt EXCEPT !.mode = "false"]
  /\ emitted = <<>>
  /\ exIn \in SeqsUpTo({RawA}, MaxFindings)
  /\ exThrows = {}
  /\ exOut = <<>>
  /\ exI = 0
  /\ exRet = NoUpdate
  /\ exPc = "start"

NextBatch ==
  \/ ExStart
  \/ BatchBegin
  \/ \E k \in 1..MaxFindings : ItemDone(k)
  \/ BatchEnd
  \/ Pause
  \/ BatchNext
  \/ ExReturn

SpecBatch == InitBatch /\ [][NextBatch]_vars

\* ------------------------------------------------------------ SpecGraph
\* The compiled graph runs its nodes one after the other on the channel state
\* and streams each node's update; runAgent reads the stream, merges each update
\* into finalState (st) and breaks at the first update with an error.  The
\* graph may be ahead of the reader, and is stopped by the break.  Detection is
\* pattern-based; the store calls of addLog are left out.

GuardedIgnoringError(p, state) ==
  CASE p = "plan" -> FALSE
    [] p = "hunt" -> FALSE
    [] p = "explain" -> Len(state.findings) = 0
    [] OTHER -> Len(state.enrichedFindings) = 0

\* a node's guard: "if (state.error || !state.x || state.x.length === 0) return {}"
Guarded(p, state) ==
  CASE p = "plan" -> FALSE
    [] p = "hunt" -> state.error # ""
    [] p = "explain" -> state.error # "" \/ Len(state.findings) = 0
    [] OTHER -> state.error # "" \/ Len(state.enrichedFindings) = 0

\* the addLog sites the model keeps of a node: first, last, catch block
FirstLog(p) ==
  CASE p = "plan" -> "plan:init" [] p = "hunt" -> "hunt:start"
    [] p = "explain" -> "explain:start" [] OTHER -> "write:start"
LastLog(p) ==
  CASE p = "plan" -> "plan:files" [] p = "hunt" -> "hunt:maint"
    [] p = "explain" -> "explain:impact" [] OTHER -> "write:done"
ErrorLog(p) ==
  CASE p = "plan" -> "plan:error" [] p = "hunt" -> "hunt:error"
    [] p = "explain" -> "explain:error" [] OTHER -> "write:error"

\* whether the node makes a call outside the process (metadata, detectors,
\* enrichment); writeNode makes none
External(p) == p # "write"

\* the updates a node that passed its guard may return from its try block
Returns(p, state) ==
  LET logs == <<FirstLog(p), LastLog(p)>>
  IN CASE p = "plan" ->
            {[NoUpdate EXCEPT !.has = {"logs", "repoMetadata"}, !.logs = logs,
                              !.repoMetadata = getRepoMetadata(hunt.tree)]}
       [] p = "hunt" ->
            {[NoUpdate EXCEPT !.has = {"logs", "findings"}, !.logs = logs,
                              !.findings = fs] : fs \in runAllDetectors(hunt.tree)}
       [] p = "explain" ->
            {[NoUpdate EXCEPT !.has = {"logs", "enrichedFindings"}, !.logs = logs,
                !.enrichedFindings =
                   [i \in 1..Len(state.findings) |->
                      EnrichItem(state.findings[i], i \in throws)]] :
               throws \in SUBSET (1..Len(state.findings))}
       [] OTHER -> {[NoUpdate EXCEPT !.has = {"logs"}, !.logs = logs]}

\* the update of a node's catch block: { error, ...addLog(Error) }
Thrown(p) ==
  [NoUpdate EXCEPT !.has = {"error", "logs"}, !.error = ErrorLog(p),
                   !.logs = <<ErrorLog(p)>>]

\* the graph hands the node's update to the channels and to the stream
Yield(p, run) ==
  /\ ch' = ChannelMerge(ch, run.out)
  /\ gph' = [gph EXCEPT !.next = PhaseAfter(p), !.running = "none",
                        !.queue = Append(@, run.out),
                        !.runs = IF gph.running = p
                                 THEN [@ EXCEPT ![Len(@)] =
                                         [run EXCEPT !.after = ChannelMerge(ch, run.out)]]
                                 ELSE Append(@, [run EXCEPT !.after =
                                                   ChannelMerge(ch, run.out)])]

\* the graph invokes its next node, whose guard returns {} at once
NodeSkip(p) ==
  /\ gph.agent = "loop"
  /\ gph.next = p /\ gph.running = "none"
  /\ Guarded(p, ch)
  /\ Yield(p, [NoRun EXCEPT !.phase = p, !.errorBefore = ch.error # "",
                            !.done = TRUE])
  /\ UNCHANGED <<st, outs, emitted, pc, upd, hunt, storeVars, explainVars, streamVars,
                 postVars, searchVars, hyb>>

\* the graph invokes its next node, which passes its guard, makes its first
\* addLog and reaches its external call
NodeEnter(p) ==
  /\ gph.agent = "loop"
  /\ gph.next = p /\ gph.running = "none"
  /\ ~Guarded(p, ch)
  /\ emitted' = Append(emitted, FirstLog(p))
  /\ gph' = [gph EXCEPT !.running = p,
               !.runs = Append(@, [NoRun EXCEPT !.phase = p,
                                     !.errorBefore = ch.error # "",
                                     !.logged = 1, !.external = External(p)])]
  /\ UNCHANGED <<ch, st, outs, pc, upd, hunt, storeVars, explainVars, streamVars,
                 postVars, searchVars, hyb>>

\* the running node returns its update
NodeReturn(p) ==
  /\ gph.running = p
  /\ emitted' = Append(emitted, LastLog(p))
  /\ \E out \in Returns(p, ch) :
       Yield(p, [gph.runs[Len(gph.runs)] EXCEPT !.done = TRUE, !.logged = @ + 1,
                                                !.out = out])
  /\ UNCHANGED <<st, outs, pc, upd, hunt, storeVars, explainVars, streamVars,
                 postVars, searchVars, hyb>>

\* the running node's external call throws and its catch block returns
\* (explainNode catches the failures of its enrichment calls item by item)
NodeThrow(p) ==
  /\ gph.running = p
  /\ p \in {"plan", "hunt"}
  /\ emitted' = Append(emitted, ErrorLog(p))
  /\ Yield(p, [gph.runs[Len(gph.runs)] EXCEPT !.done = TRUE, !.logged = @ + 1,
                                              !.out = Thrown(p)])
  /\ UNCHANGED <<st, outs, pc, upd, hunt, storeVars, explainVars, streamVars,
                 postVars, searchVars, hyb>>

\* runAgent: "for await (const update of stream)" reads the next update
Take ==
  /\ gph.agent = "loop" /\ ~gph.taken
  /\ gph.queue # <<>>
  /\ gph' = [gph EXCEPT !.cur = Head(gph.queue), !.taken = TRUE,
                        !.queue = Tail(gph.queue)]
  /\ UNCHANGED <<ch, agentVars, storeVars, explainVars, streamVars, postVars, searchVars, hyb>>

\* runAgent: the loop body: merge, and break on an error
Process ==
  /\ gph.agent = "loop" /\ gph.taken
  /\ st' = MergeNodeOutput(st, gph.cur)
  /\ outs' = Append(outs, IF "logs" \in gph.cur.has THEN gph.cur.logs ELSE <<>>)
  /\ gph' = [gph EXCEPT !.taken = FALSE, !.cur = NoUpdate, !.consumed = @ + 1,
               !.agent = IF "error" \in gph.cur.has /\ gph.cur.error # ""
                         THEN "returned" ELSE @]
  /\ UNCHANGED <<ch, pc, upd, hunt, emitted, storeVars, explainVars, streamVars,
                 postVars, searchVars, hyb>>

\* runAgent: the stream has ended, return finalState
EndOfStream ==
  /\ gph.agent = "loop" /\ ~gph.taken
  /\ gph.queue = <<>> /\ gph.next = "end"
  /\ gph' = [gph EXCEPT !.agent = "returned"]
  /\ UNCHANGED <<ch, agentVars, storeVars, explainVars, streamVars, postVars, searchVars, hyb>>

GraphPhases == {"plan", "hunt", "explain", "write"}

InitGraph ==
  /\ file = "ok"
  /\ disk = EmptyStore
  /\ obs = [o \in Observers |-> NoStream]
  /\ post = NoPost
  /\ NoSearch
  /\ NoGraph
  /\ exRun = NoRunning
  /\ tmp = NoTmp
  /\ writeLock = "init"
  /\ pending = {}
  /\ lockWait = <<>>
  /\ mq = <<>>
  /\ task = [t \in Tasks |-> IdleTask]
  /\ pc = "off"
  /\ st = initialState
  /\ upd = <<>>
  /\ outs = <<>>
  /\ hunt \in {[NoHunt EXCEPT !.tree = t] : t \in TreeStates}
  /\ emitted = <<>>
  /\ exIn = <<>>
  /\ exThrows = {}
  /\ exOut = <<>>
  /\ exI = 0
  /\ exRet = NoUpdate
  /\ exPc = "off"

NextGraph ==
  \/ \E p \in GraphPhases : NodeSkip(p)
  \/ \E p \in GraphPhases : NodeEnter(p)
  \/ \E p \in GraphPhases : NodeReturn(p)
  \/ \E p \in GraphPhases : NodeThrow(p)
  \/ Take
  \/ Process
  \/ EndOfStream

SpecGraph == InitGraph /\ [][NextGraph]_vars

\* ------------------------------------------------------------ properties
IsPrefix(a, b) == Len(a) <= Len(b) /\ SubSeq(b, 1, Len(a)) = a

Range(q) == {q[i] : i \in 1..Len(q)}

RECURSIVE Flatten(_)
Flatten(qs) == IF qs = <<>> THEN <<>> ELSE Head(qs) \o Flatten(Tail(qs))

\* the store calls that are inside the operation withLock runs for them
InBody == {t \in Tasks : task[t].pc \in {"getRead", "updRead", "saveRead", "idsRead",
                                         "updOpen", "updWrite", "updVerify",
                                         "updRename", "updUnlink"}}

Terminal == {"completed", "failed"}

\* runAgentInBackground has returned and no store call is left
Quiescent ==
  /\ pc \in {"done", "doneFatal", "doneThrew"}
  /\ \A t \in Tasks : task[t].pc \in {"idle", "done"}

\* C1: withLock gives mutual exclusion: at no time are two store operations
\* inside their locked section (the read-modify-write of one call never overlaps
\* that of another).
C1_MutualExclusion == Cardinality(InBody) <= 1

\* C2: when two write-throughs that append a log entry to the same scan have both
\* completed, the stored logs hold both entries (before the final update replaces
\* the list).
C2_BothAppendsKept ==
  \A a, b \in Sites :
    (a # b /\ task[a].pc = "done" /\ task[b].pc = "done"
       /\ ~task[a].failed /\ ~task[b].failed /\ task["bg"].pc = "idle")
    => {a, b} \subseteq Range(disk["s1"].logs)

\* C3: after every merge runAgent's accumulated logs are the concatenation, in
\* execution order, of the log lists the executed nodes returned.
C3_LogsAreConcatenation == st.logs = Flatten(outs)

\* C3 witness: hunt failed after plan succeeded; the final logs are plan's two
\* entries followed by hunt's error entry
C3_Witness ==
  /\ pc = "done"
  /\ outs = << <<"plan:init", "plan:files">>, <<"hunt:error">> >>
  /\ st.logs = <<"plan:init", "plan:files", "hunt:error">>

\* C4: the stored logs of a scan are append-only: every write leaves the earlier
\* stored list as a prefix of the new one.
C4_StoredLogsAppendOnly ==
  [][IsPrefix(disk["s1"].logs, disk'["s1"].logs)]_vars

\* C5: when the pipeline ends with error set, the stored findings stay empty and
\* the stored statistics stay all zero; only status and logs are written.
C5_ErrorLeavesFindingsAndStats ==
  st.error # "" => (disk["s1"].findings = <<>> /\ disk["s1"].stats = ZeroStats)

\* C5 witness: hunt failed after plan had found 3 files, and the final update
\* has been written
C5_Witness ==
  /\ Quiescent
  /\ st.error = "hunt:error"
  /\ st.repoMetadata.totalFiles = 3
  /\ disk["s1"].status = "failed"

\* C6: status is monotonic: once completed or failed, no write changes it.
C6_StatusMonotonic ==
  [][disk["s1"].status \in Terminal => disk'["s1"].status = disk["s1"].status]_vars

\* C7: once status has left scanning, no later write changes any field of the
\* stored record.
C7_TerminalRecordImmutable ==
  [][disk["s1"].status # "scanning" => disk'["s1"] = disk["s1"]]_vars

\* C8: when the run has ended and every store call has settled, status is
\* completed or failed: it does not stay scanning.
C8_EndsTerminal == Quiescent => disk["s1"].status \in Terminal

\* C9: the final status is failed exactly when the pipeline's state carries an
\* error or the run threw, and completed otherwise (with no findings too).
C9_FinalStatus ==
  Quiescent =>
    disk["s1"].status =
      (IF st.error # "" \/ pc \in {"doneFatal", "doneThrew"} THEN "failed" ELSE "completed")

\* C10: per-item isolation in explainNode: whichever items' enrichment fails, the
\* phase returns exactly as many findings as it was given, without error; the
\* i-th output keeps the i-th input's ruleId, category, file, line and snippet;
\* and a failed item has the fallback shape (eta medium, minutesSaved 10, the
\* fixed explanation, fix and timeline, severity from the ruleId lookup).
C10_PerItemIsolation ==
  (exPc = "done" /\ Len(exIn) > 0) =>
    /\ "error" \notin exRet.has
    /\ "enrichedFindings" \in exRet.has
    /\ Len(exRet.enrichedFindings) = Len(exIn)
    /\ \A i \in 1..Len(exIn) :
         LET f == exIn[i]
             g == exRet.enrichedFindings[i]
         IN /\ g.ruleId = f.ruleId /\ g.category = f.category /\ g.file = f.file
            /\ g.line = f.line /\ g.snippet = f.snippet
            /\ i \in exThrows =>
                 /\ g.eta = "medium"
                 /\ g.minutesSaved = 10
                 /\ g.explanation = <<"Unable to generate explanation", "">>
                 /\ g.fix = <<"// Fix could not be generated", "">>
                 /\ g.timeline = FallbackTimeline
                 /\ g.severity = (IF f.ruleId \in DOMAIN SEVERITY_MAP
                                  THEN SEVERITY_MAP[f.ruleId] ELSE "medium")

\* C10 witness: six findings, two batches, one failed item in each batch
C10_Witness ==
  /\ exPc = "done"
  /\ exIn = <<RawA, RawC, RawA, RawA, RawC, RawA>>
  /\ exThrows = {3, 6}
  /\ Len(exRet.enrichedFindings) = 6
  /\ exRet.enrichedFindings[6].minutesSaved = 10
  /\ exRet.enrichedFindings[1].minutesSaved = 17

\* C11: in the AI and hybrid modes, when the primary strategy throws and the
\* pattern-based fallback returns k findings, Hunt returns exactly those findings
\* without error and the scan ends completed with k findings; Hunt sets error only
\* when the fallback itself throws.
C11_FallbackEndsCompleted ==
  (hunt.mode \in {"true", "hybrid"} /\ hunt.primary = "threw") =>
    /\ hunt.fallback = "returned" => (st.findings = hunt.fb /\ st.error = "")
    /\ st.error = "hunt:error" => hunt.fallback = "threw"
    /\ (Quiescent /\ hunt.fallback = "returned") =>
         (disk["s1"].status = "completed" /\ Len(disk["s1"].findings) = Len(hunt.fb))

C13_FailedRecordKeepsLogs ==
  (Quiescent /\ st.error # "") =>
    /\ disk["s1"].exists
    /\ disk["s1"].status = "failed"
    /\ ({"queued"} \cup Range(emitted)) \subseteq Range(disk["s1"].logs)

\* C14: scans.json is only ever replaced by the rename of a completely written
\* and validated temporary file, so a scans.json that holds a parseable snapshot
\* holds one after every step, for every interleaving of store calls that share
\* the temporary file path.
C14_FileAlwaysParseable == [][file = "ok" => file' = "ok"]_vars

\* a client's read call (getScan or getScanIds) settles in this step
ReadSettles(c) ==
  /\ task[c].op \in {"get", "ids"}
  /\ task[c].pc \notin {"idle", "done"}
  /\ task'[c].pc = "done"

\* C15: a store read that finds scans.json missing, unparsable or not an object
\* resets the persisted store to empty and returns as for an empty store (getScan
\* absent, getScanIds only the demo ids) instead of throwing; a read that finds a
\* valid file returns without writing.
C15_ReadSelfHeals ==
  [][\A c \in Clients :
       /\ (task[c].pc \in {"getRead", "idsRead"} /\ file = "ok"
             /\ task'[c].pc # task[c].pc) =>
            (ReadSettles(c) /\ UNCHANGED <<disk, file, tmp>>)
       /\ (ReadSettles(c) /\ task'[c].found # "ok") =>
            /\ ~task'[c].failed
            /\ file' = "ok" /\ disk' = EmptyStore
            /\ ~task'[c].snap.exists
            /\ task'[c].op = "ids" => task'[c].keys = DemoIds]_vars

\* C16: saveScan fails when a record with the given id is already stored: a
\* finished saveScan call that found the id in the store has thrown.
C16_CreateFailsOnExistingId ==
  \A c \in Clients :
    (task[c].pc = "done" /\ task[c].op = "save" /\ task[c].snap.exists) =>
      task[c].failed

\* a client's updateScan call settles in this step
UpdateSettles(c) ==
  /\ task[c].op = "upd"
  /\ task[c].pc \notin {"idle", "done"}
  /\ task'[c].pc = "done"

\* C17: updateScan on an absent id throws and leaves the persisted store as it
\* was; on a present id it returns with the stored record being the shallow merge
\* of the record it read and the update: supplied fields replaced (logs too),
\* the other fields kept.
C17_UpdateMergesOrFails ==
  [][\A c \in Clients :
       UpdateSettles(c) =>
         IF task'[c].snap.exists
         THEN /\ ~task'[c].failed
              /\ disk'[ScanOf(c)] = MergeRecord(task'[c].snap, task'[c].patch)
         ELSE /\ task'[c].failed
              /\ disk' = disk]_vars

\* C18: an observer that has been sent the complete event has been sent, before
\* it, every entry appended to the scan's logs since it subscribed, in the order
\* of the appends and each once: its log events, the initial entry aside, are
\* the entries addLog was called for.
C18_StreamDeliversEveryEntry ==
  \A o \in Observers :
    obs[o].final.sent =>
      SelectSeq(obs[o].logs, LAMBDA e : e # "queued") = emitted

\* C19: two subscribers of the same scan, both subscribed before its first
\* entry, have been sent the same sequence of log events once both have been
\* sent the complete event.
C19_SubscribersSeeSameSequence ==
  (\A o \in Observers : obs[o].final.sent) =>
    \A o, p \in Observers : obs[o].logs = obs[p].logs

\* C20: the status, findings count and stats of a complete event that was sent
\* are those of the record the store returns once the run is over.
C20_CompleteEventMatchesRecord ==
  \A o \in Observers :
    (Quiescent /\ obs[o].final.sent) =>
      /\ disk["s1"].exists
      /\ obs[o].final.status = disk["s1"].status
      /\ obs[o].final.findingsCount = Len(disk["s1"].findings)
      /\ obs[o].final.stats = disk["s1"].stats

C22_UnknownIdClosesStream ==
  [][pc = "off" =>
       \A o \in Observers :
         /\ (obs[o].open /\ obs[o].polling /\ ~obs'[o].polling) =>
              (obs'[o].error = "Scan not found" /\ ~obs'[o].open)
         /\ obs'[o].logs = <<>>
         /\ ~obs'[o].final.sent
         /\ ~obs[o].open => (obs'[o].polling => obs[o].polling)]_vars

\* the error event was sent on a connection for an id that was never submitted
C22_Witness ==
  /\ pc = "off"
  /\ obs["o1"].error = "Scan not found"
  /\ ~obs["o1"].aborted
  /\ ~obs["o1"].open /\ ~obs["o1"].polling
  /\ file = "ok"

\* the place of an entry among the addLog calls of the run (0 if there is none)
Produced(e) ==
  IF e \in Range(emitted) THEN CHOOSE i \in 1..Len(emitted) : emitted[i] = e ELSE 0

C24_InvalidSubmitRejected ==
  (post.pc # "idle" /\ post.url \in BadUrls) =>
    /\ post.pc = "done" /\ post.response = 400
    /\ task["c1"].pc = "idle"
    /\ ~disk["s1"].exists /\ tmp = NoTmp
    /\ pc = "off" /\ emitted = <<>>

\* a request with a repoUrl on another host was answered with 400
C24_Witness ==
  /\ post.url = Https \o GitLabCom \o Owner \o <<"/", "r">>
  /\ post.response = 400

\* C25: when saveScan has returned to a valid request, the record it created has
\* status scanning, no findings and no logs; the pipeline is started only after
\* that, and the request is answered (202) when the pipeline is started, before
\* any phase has run.
C25_SubmitCreatesInitialRecord ==
  /\ post.pc = "sleep" =>
       /\ disk["s1"].exists
       /\ disk["s1"].status = "scanning"
       /\ disk["s1"].findings = <<>>
       /\ disk["s1"].logs = <<>>
  /\ pc # "off" => (post.response = 202 /\ ~task["c1"].failed)
  /\ post.response = 202 => pc # "off"

\* C26: in a stored record with status completed the four severity counts add
\* up to the number of findings and totalMinutes is the sum of the findings'
\* minutesSaved, whatever mix of enriched and fallback findings it holds.
C26_StatsMatchFindings ==
  LET r == disk["s1"]
  IN r.status = "completed" =>
       /\ r.stats.criticalCount + r.stats.highCount + r.stats.mediumCount
            + r.stats.lowCount = Len(r.findings)
       /\ r.stats.totalMinutes = SumMinutes(r.findings)

\* a completed record with one enriched and one fallback finding
C26_Witness ==
  LET r == disk["s1"]
  IN /\ r.status = "completed"
     /\ Len(r.findings) = 2
     /\ r.findings[1].timeline # FallbackTimeline
     /\ r.findings[2].timeline = FallbackTimeline

\* C27: severity is a function of the ruleId alone: two enriched findings with
\* the same ruleId carry the same severity, whatever their file, snippet,
\* position in a batch, or whether their enrichment succeeded or fell back; and
\* a ruleId outside the severity table carries medium.
C27_SeverityByRuleAlone ==
  /\ \A i, j \in 1..Len(exOut) :
       exOut[i].ruleId = exOut[j].ruleId => exOut[i].severity = exOut[j].severity
  /\ \A i \in 1..Len(exOut) :
       exOut[i].ruleId \notin DOMAIN SEVERITY_MAP => exOut[i].severity = "medium"

\* C27 witness: six findings in two batches; the two findings of the unknown rule
\* differ in file, snippet, batch and outcome (one enriched with eta large, one
\* fallen back), and the table rule appears enriched and fallen back
C27_Witness ==
  /\ exPc = "done"
  /\ exIn = <<RawC, RawA, RawA, RawC, RawA, RawD>>
  /\ exThrows = {3, 6}
  /\ exOut[1].eta = "large" /\ exOut[6].eta = "medium"
  /\ exOut[1].file # exOut[6].file
  /\ exOut[1].severity = "medium" /\ exOut[6].severity = "medium"
  /\ exOut[2].severity = "critical" /\ exOut[3].severity = "critical"

\* a client's getScan call settles in this step and returns (record or null)
GetReturns(c) ==
  /\ task[c].op = "get"
  /\ task[c].pc \notin {"idle", "done"}
  /\ task'[c].pc = "done"
  /\ ~task'[c].failed

\* neither saveScan nor updateScan has been called by any request
NoUpdateCalled == \A e \in Clients : task[e].op \notin {"save", "upd"}

\* C28: getScan is idempotent.  A getScan that reads a valid scans.json returns
\* the record persisted under the id (null if there is none) and leaves
\* scans.json and the temporary file as they were, so two calls between which
\* the store was not changed return the same record; and while no saveScan or
\* updateScan has been called, every getScan that has returned has returned the
\* same record.
C28_GetRecordIdempotent ==
  [][\A c \in Clients :
       /\ (task[c].pc = "getRead" /\ file = "ok" /\ task'[c].pc # "getRead") =>
            /\ task'[c].pc = "done" /\ ~task'[c].failed
            /\ task'[c].snap = disk[ScanOf(c)]
            /\ UNCHANGED <<disk, file, tmp>>
       /\ (GetReturns(c) /\ NoUpdateCalled') =>
            \A d \in Clients :
              (task'[d].pc = "done" /\ task'[d].op = "get" /\ ~task'[d].failed) =>
                task'[d].snap = task'[c].snap]_vars

\* C28 witness: two getScan calls have returned the stored record of a valid
\* store, no update was called, and the store still holds that record
C28_Witness ==
  /\ NoUpdateCalled
  /\ \A c \in {"c1", "c2"} :
       /\ task[c].pc = "done" /\ task[c].op = "get" /\ ~task[c].failed
       /\ task[c].found = "ok"
       /\ task[c].snap = initialScan
  /\ file = "ok" /\ disk["s1"] = initialScan

\* C29: a failure of the pattern-based Analyzer does not pass for a clean
\* repository: when GitHub does not serve the file tree (the fetch fails on main
\* and on master), the record does not end completed with zero findings.
C29_AnalyzerFailureVisible ==
  (hunt.tree = "unreachable" /\ Quiescent) =>
    ~(disk["s1"].status = "completed" /\ disk["s1"].findings = <<>>)

\* C30: any two search requests sent by searchCode are at least
\* MIN_SEARCH_INTERVAL (500 ms) apart, however the calls of concurrent callers
\* interleave.
C30_SearchesSpaced ==
  \A i, j \in 1..Len(sentAt) :
    i < j => sentAt[j] - sentAt[i] >= MIN_SEARCH_INTERVAL

\* the order of the graph's edges
Phases == <<"plan", "hunt", "explain", "write">>

\* C31: within one scan the phases are invoked in the order plan, hunt,
\* explain, write, each at most once, and a phase is invoked only when the one
\* before it has returned; once a phase has returned an error, every phase
\* invoked after it returns the empty update, makes no addLog call and reaches
\* no external call.
C31_PhasesInOrderAndGuarded ==
  LET runs == gph.runs
  IN /\ Len(runs) <= Len(Phases)
     /\ \A i \in 1..Len(runs) :
          /\ runs[i].phase = Phases[i]
          /\ i < Len(runs) => runs[i].done
          /\ (\E j \in 1..(i - 1) : "error" \in runs[j].out.has) =>
               /\ runs[i].done
               /\ runs[i].out = NoUpdate
               /\ runs[i].logged = 0
               /\ ~runs[i].external
     /\ gph.running # "none" => ~gph.runs[Len(gph.runs)].done

\* C31 witness: plan returned an error and the graph, ahead of runAgent's break,
\* went on to invoke hunt, explain and write
C31_Witness ==
  /\ Len(gph.runs) = 4
  /\ gph.runs[1].out = Thrown("plan")
  /\ \A i \in 2..4 : gph.runs[i].done /\ gph.runs[i].out = NoUpdate
  /\ emitted = <<"plan:init", "plan:error">>

\* the channel state a phase's update was merged into
Before(i) == IF i = 1 THEN initialState ELSE gph.runs[i - 1].after

\* C32: the graph merges a phase's update field by field: repoMetadata,
\* findings, enrichedFindings and error take the update's value when the update
\* has the field and keep the previous value otherwise, logs become the previous
\* logs followed by the update's; and after every update runAgent has merged,
\* its finalState equals the channel state after the phase that produced the
\* update, so that the state it returns is the graph's.
C32_MergeMatchesChannels ==
  /\ \A i \in 1..Len(gph.runs) :
       LET r == gph.runs[i]
           x == Before(i)
       IN r.done =>
            /\ r.after.repoMetadata =
                 (IF "repoMetadata" \in r.out.has THEN r.out.repoMetadata ELSE x.repoMetadata)
            /\ r.after.findings =
                 (IF "findings" \in r.out.has THEN r.out.findings ELSE x.findings)
            /\ r.after.enrichedFindings =
                 (IF "enrichedFindings" \in r.out.has THEN r.out.enrichedFindings
                  ELSE x.enrichedFindings)
            /\ r.after.error = (IF "error" \in r.out.has THEN r.out.error ELSE x.error)
            /\ r.after.logs = x.logs \o (IF "logs" \in r.out.has THEN r.out.logs ELSE <<>>)
  /\ st = (IF gph.consumed = 0 THEN initialState ELSE gph.runs[gph.consumed].after)
  /\ (gph.agent = "returned" /\ gph.running = "none") => st = ch

\* C32 witness: all four phases ran and runAgent has merged their four updates
\* into a state with metadata, two findings, their enrichment and eight entries
C32_Witness ==
  /\ gph.agent = "returned"
  /\ gph.consumed = 4
  /\ st = ch
  /\ st.repoMetadata.set
  /\ Len(st.findings) = 2 /\ Len(st.enrichedFindings) = 2
  /\ Len(st.logs) = 8
  /\ st.error = ""

\* the batch a finding belongs to (findings are numbered from 1)
BatchOf(k) == (k - 1) \div BatchSize

\* ceil(n / BatchSize)
Batches(n) == (n + BatchSize - 1) \div BatchSize

\* the number of times e occurs in the events
Count(e) == Cardinality({i \in 1..Len(exRun.events) : exRun.events[i] = e})

\* C33: explainNode enriches the findings in consecutive batches of at most 5:
\* at most 5 findings are in flight at any time; a finding is in flight only
\* when every finding of the earlier batches has finished (and none of a later
\* batch has started); batches and pauses alternate, beginning with a batch; and
\* when the node returns there were ceil(N/5) batches with a pause between each
\* two and none after the last.
C33_BatchesOfFive ==
  /\ Cardinality(exRun.fly) <= BatchSize
  /\ \A k \in exRun.fly :
       /\ \A j \in 1..Len(exIn) : BatchOf(j) < BatchOf(k) => j \in exRun.finished
       /\ \A j \in exRun.fly \cup exRun.finished : BatchOf(j) <= BatchOf(k)
  /\ \A i \in 1..Len(exRun.events) :
       exRun.events[i] = (IF i % 2 = 1 THEN "batch" ELSE "pause")
  /\ exPc = "done" =>
       /\ Count("batch") = Batches(Len(exIn))
       /\ Count("pause") = (IF Len(exIn) = 0 THEN 0 ELSE Batches(Len(exIn)) - 1)
       /\ exRun.finished = 1..Len(exIn)
       /\ Len(exOut) = Len(exIn)

\* C33 witness: six findings; the sixth is in flight alone, after the five of
\* the first batch have finished and one pause
C33_Witness ==
  /\ Len(exIn) = 6
  /\ exRun.fly = {6}
  /\ exRun.finished = 1..5
  /\ exRun.events = <<"batch", "pause", "batch">>

\* C34: scans are independent in the store: a scan's record changes only in a
\* step of a store call made for that scan, so a write for one scan never
\* removes, reverts or otherwise changes the record of another.
C34_ScansIndependent ==
  [][\A s \in ScanIds :
       disk'[s] # disk[s] =>
         \E t \in Tasks : ScanOf(t) = s /\ task'[t].pc # task[t].pc]_vars

Ended(c) == c.pc \in {"done", "threw"}

\* C37: a searchCode call starts at most MAX_REINDEX_ATTEMPTS (2) re-indexes
\* and sends at most 3 search requests; it throws "permanently expired" on the
\* first 410 when retryOnExpired is false and on the third otherwise; a
\* re-index that times out makes it throw; and every call ends.
C37_ReindexBounded ==
  /\ [](\A k \in Searchers :
          LET c == srch[k]
          IN /\ c.reindexes <= MAX_REINDEX_ATTEMPTS
             /\ c.requests <= MAX_REINDEX_ATTEMPTS + 1
             /\ c.requests <= c.reindexes + 1
             /\ ~c.retryOnExpired => c.reindexes = 0
             /\ c.out = "expired" =>
                  /\ c.pc = "threw"
                  /\ IF c.retryOnExpired
                     THEN c.reindexes = MAX_REINDEX_ATTEMPTS /\ c.requests = c.reindexes + 1
                     ELSE c.requests = 1
             /\ c.out = "timeout" => c.pc = "threw")
  /\ <>(\A k \in Reindexers : Ended(srch[k]))

\* C37 witness: one call threw after two re-indexes and three requests, and
\* the other, made with retryOnExpired false, threw on its first 410
C37_Witness ==
  /\ \E k \in Searchers :
       /\ srch[k].out = "expired" /\ srch[k].reindexes = 2 /\ srch[k].requests = 3
  /\ \E k \in Searchers :
       /\ srch[k].out = "expired" /\ ~srch[k].retryOnExpired /\ srch[k].requests = 1

\* file:line:ruleId
Key(f) == <<f.file, f.line, f.ruleId>>

\* the position of the first finding of fs with the key of f
FirstOf(fs, f) == CHOOSE i \in 1..Len(fs) :
                     /\ Key(fs[i]) = Key(f)
                     /\ \A j \in 1..(i - 1) : Key(fs[j]) # Key(f)

\* C38: the result of runHybridDetectors has a finding for the file, line and
\* ruleId of every quick-scan finding, whether the deep scan was skipped,
\* returned or threw; the deep scan is run exactly when a quick finding of
\* category security has one of the rules sql-injection, hardcoded-secrets,
\* eval-usage; and a merged result has no two findings with the same file, line
\* and ruleId, each being the first of the quick findings followed by the deep
\* ones with its key, in their order.
C38_HybridKeepsQuick ==
  hyb.pc = "done" =>
    LET all == hyb.quick \o hyb.ai
        out == hyb.out
    IN /\ \A i \in 1..Len(hyb.quick) :
            \E j \in 1..Len(out) : Key(out[j]) = Key(hyb.quick[i])
       /\ hyb.deep \in {"skipped", "returned", "threw"}
       /\ hyb.deep # "skipped" <=>
            \E i \in 1..Len(hyb.quick) :
               /\ hyb.quick[i].category = "security"
               /\ hyb.quick[i].ruleId \in {"sql-injection", "hardcoded-secrets", "eval-usage"}
       /\ hyb.deep # "returned" => out = hyb.quick
       /\ hyb.deep = "returned" =>
            /\ \A i, j \in 1..Len(out) : i # j => Key(out[i]) # Key(out[j])
            /\ \A i \in 1..Len(out) : out[i] = all[FirstOf(all, out[i])]
            /\ \A i, j \in 1..Len(out) :
                 i < j => FirstOf(all, out[i]) < FirstOf(all, out[j])
            /\ \A n \in 1..Len(all) : \E i \in 1..Len(out) : Key(out[i]) = Key(all[n])

\* C38 witness: the deep scan returned another report of a quick finding's
\* place and rule and a new finding; the result keeps the quick scan's report
C38_Witness ==
  /\ hyb.pc = "done"
  /\ hyb.deep = "returned"
  /\ hyb.quick = <<RawB, RawA>>
  /\ hyb.ai = <<RawA2, RawE>>
  /\ hyb.out = <<RawB, RawA, RawE>>

\* C39: the lock of a call that has ended, thrown or not, is released and
\* nobody is left suspended on it; every call that has been made ends; and in
\* the end no lock is held and no caller waits.
C39_LockReleased ==
  /\ [](\A c \in ScanCallers :
          task[c].pc \in {"idle", "done"} =>
            /\ c \notin pending
            /\ \A i \in 1..Len(lockWait) : lockWait[i].on # c)
  /\ \A c \in ScanCallers : (task[c].pc = "wait") ~> (task[c].pc = "done")
  /\ <>[](/\ pending = {}
          /\ lockWait = <<>>
          /\ \A c \in ScanCallers : task[c].pc = "done")

\* C39 witness: d1's update of the absent record threw, and the calls for the
\* other scan have completed without failure; no lock is held
C39_Witness ==
  /\ task["d1"].pc = "done" /\ task["d1"].failed
  /\ ~disk["s2"].exists
  /\ file = "ok"
  /\ \A c \in {"c1", "c2"} : task[c].pc = "done" /\ ~task[c].failed
  /\ pending = {}
  /\ lockWait = <<>>

====
